---- MODULE Spec2Model ----
(***************************************************************************)
(* A model of the cairo_vm.go execution engine: the dict-manager hints and *)
(* their dispatcher (pkg/hints), and the operand / opcode-assertion part   *)
(* of the virtual machine core (pkg/vm/vm_core.go).                        *)
(*                                                                         *)
(* Go values are modelled as records.  A MaybeRelocatable is              *)
(*   [tag |-> "Int", felt |-> n]      inner is an Int (a field element)    *)
(*   [tag |-> "Rel", rel  |-> r]      inner is a Relocatable               *)
(*   [tag |-> "Empty"]                the zero value MaybeRelocatable{}    *)
(* and a nil pointer is Nil.  Errors are strings, "nil" being no error.    *)
(***************************************************************************)
EXTENDS Integers, Sequences, FiniteSets, TLC

VARIABLES
    run_context,    \* vm.RunContext: the registers Pc, Ap, Fp
    num_segments,   \* vm.Segments: how many segments AddSegment has allocated
    mem,            \* vm.Segments.Memory: Relocatable -> MaybeRelocatable (partial)
    scopes,         \* ExecutionScopes: variable name -> value (partial)
    instruction,    \* the instruction being executed (Nil before the first fetch)
    operands,       \* the Operands ComputeOperands returned for it (Nil if none)
    verified_addresses, \* PedersenBuiltinRunner.verified_addresses: a sequence of bool
    builtin_base,   \* the builtin runner's base (PedersenBuiltinRunner.base, RangeCheckBuiltinRunner.base)
    trace,          \* vm.Trace: the sequence of TraceEntry (Pc, Ap, Fp) recorded so far
    relocated_trace, \* vm.RelocatedTrace: the sequence of RelocatedTraceEntry
    ret             \* what the last call was, its arguments and what it returned

vars == <<run_context, num_segments, mem, scopes, instruction, operands,
          verified_addresses, builtin_base, trace, relocated_trace, ret>>

-----------------------------------------------------------------------------
(* Bounds of the model *)

\* the calls of DEFAULT_DICT_NEW in one run
MaxDicts == 2
\* ap stays within the offsets 0..MaxOffset of the execution segment
MaxOffset == 2

-----------------------------------------------------------------------------
(* Field elements and machine integers, scaled down *)

\* The field's prime (2^251 + 17*2^192 + 1 in the program), scaled to a small prime
\* that, like the real one, is more than twice what a limb can hold: the sum of two
\* machine integers never wraps in the field.
FeltPrime == 17

\* The width of a limb, and of Go's uint and uint64 (64 in the program).
LimbBits == 3

LimbModulus == 2 ^ LimbBits

Felts == 0 .. (FeltPrime - 1)

\* lambdaworks.Add
FeltAdd(a, b) == (a + b) % FeltPrime

\* lambdaworks.Sub
FeltSub(a, b) == (a - b + FeltPrime) % FeltPrime

\* lambdaworks.Mul
FeltMul(a, b) == (a * b) % FeltPrime

\* lambdaworks.From: the felt of an unsigned 64-bit value
FeltFromUint64(n) == n % FeltPrime

\* The four limbs of a felt, most significant first.
FeltLimbs(a) ==
    << (a \div (LimbModulus * LimbModulus * LimbModulus)) % LimbModulus,
       (a \div (LimbModulus * LimbModulus)) % LimbModulus,
       (a \div LimbModulus) % LimbModulus,
       a % LimbModulus >>

\* Felt.ToU64: the lowest limb when the three upper limbs are zero
ToU64(a) ==
    LET limbs == FeltLimbs(a) IN
    IF limbs[1] = 0 /\ limbs[2] = 0 /\ limbs[3] = 0
    THEN [val |-> limbs[4], err |-> "nil"]
    ELSE [val |-> 0, err |-> "Cannot convert felt to u64"]

-----------------------------------------------------------------------------
(* Relocatable and MaybeRelocatable *)

Nil == [tag |-> "nil"]

Empty == [tag |-> "Empty"]

NewRelocatable(segment_idx, offset) == [SegmentIndex |-> segment_idx, Offset |-> offset]

NewMaybeRelocatableInt(felt) == [tag |-> "Int", felt |-> felt]

NewMaybeRelocatableRelocatable(relocatable) == [tag |-> "Rel", rel |-> relocatable]

\* the zero Relocatable, which a failed type assertion yields
ZeroRelocatable == NewRelocatable(0, 0)

\* MaybeRelocatable.GetInt: the inner felt and whether inner is an Int
GetInt(m) ==
    IF m.tag = "Int" THEN [val |-> m.felt, ok |-> TRUE] ELSE [val |-> 0, ok |-> FALSE]

\* MaybeRelocatable.GetRelocatable: the inner address and whether inner is one
GetRelocatable(m) ==
    IF m.tag = "Rel" THEN [val |-> m.rel, ok |-> TRUE]
    ELSE [val |-> ZeroRelocatable, ok |-> FALSE]

\* Relocatable.IsEqual
RelocatableIsEqual(r, r1) ==
    r.SegmentIndex = r1.SegmentIndex /\ r.Offset = r1.Offset

\* MaybeRelocatable.IsEqual
IsEqual(m, m1) ==
    LET a == GetInt(m)
        b == GetInt(m1)
    IN  IF a.ok = b.ok
        THEN IF a.ok
             THEN a.val = b.val
             ELSE RelocatableIsEqual(GetRelocatable(m).val, GetRelocatable(m1).val)
        ELSE FALSE

\* MaybeRelocatable.IsZero
IsZero(m) == GetInt(m).ok /\ GetInt(m).val = FeltFromUint64(0)

\* Relocatable.AddUint: the offset wraps as Go's uint does
AddUint(r, other) ==
    [val |-> NewRelocatable(r.SegmentIndex, (r.Offset + other) % LimbModulus),
     err |-> "nil"]

\* An AddFelt that converts the felt to a uint first and adds machine integers; C17
\* is checked against it.
AddFeltOfFittingFelt(r, other) ==
    LET other_u64 == ToU64(other) IN
    IF other_u64.err # "nil" \/ r.Offset + other_u64.val >= LimbModulus
    THEN [val |-> ZeroRelocatable, err |-> "Cannot convert felt to u64"]
    ELSE [val |-> NewRelocatable(r.SegmentIndex, r.Offset + other_u64.val),
          err |-> "nil"]

\* Relocatable.AddFelt
AddFelt(r, other) ==
    LET felt_offset == FeltFromUint64(r.Offset)
        new_offset  == FeltAdd(felt_offset, other)
        res_offset  == ToU64(new_offset)
    IN  IF res_offset.err # "nil"
        THEN [val |-> ZeroRelocatable, err |-> res_offset.err]
        ELSE [val |-> NewRelocatable(r.SegmentIndex, res_offset.val), err |-> "nil"]

\* Relocatable.AddMaybeRelocatable
RelocatableAddMaybeRelocatable(r, other) ==
    LET felt == GetInt(other) IN
    IF ~felt.ok
    THEN [val |-> ZeroRelocatable, err |-> "Can't add two relocatable values"]
    ELSE AddFelt(r, felt.val)

\* MaybeRelocatable.AddMaybeRelocatable
AddMaybeRelocatable(m, other) ==
    LET m_int     == GetInt(m)
        other_int == GetInt(other)
        m_rel     == GetRelocatable(m)
        other_rel == GetRelocatable(other)
    IN  IF m_int.ok /\ other_int.ok
        THEN [val |-> NewMaybeRelocatableInt(FeltAdd(m_int.val, other_int.val)),
              err |-> "nil"]
        ELSE IF m_rel.ok /\ ~other_rel.ok
        THEN LET felt == AddFelt(m_rel.val, GetInt(other).val) IN
             IF felt.err # "nil"
             THEN [val |-> Empty, err |-> "nil"]
             ELSE [val |-> NewMaybeRelocatableRelocatable(felt.val), err |-> "nil"]
        ELSE IF ~m_rel.ok /\ other_rel.ok
        THEN LET felt == AddFelt(other_rel.val, GetInt(m).val) IN
             IF felt.err # "nil"
             THEN [val |-> Empty, err |-> felt.err]
             ELSE [val |-> NewMaybeRelocatableRelocatable(felt.val), err |-> "nil"]
        ELSE [val |-> Empty, err |-> "RelocatableAdd"]

-----------------------------------------------------------------------------
(* Memory and segments *)

\* Memory.Get: the cell, or the unknown-cell error
MemoryGet(m, addr) ==
    IF addr \in DOMAIN m
    THEN [val |-> m[addr], err |-> "nil"]
    ELSE [val |-> Nil, err |-> "UnknownMemoryCell"]

\* Memory.Insert: write once per address, into an allocated segment
MemoryInsert(m, nsegs, addr, val) ==
    IF addr.SegmentIndex >= nsegs
    THEN [mem |-> m, err |-> "UnallocatedSegment"]
    ELSE IF addr \in DOMAIN m /\ m[addr] # val
    THEN [mem |-> m, err |-> "InconsistentMemory"]
    ELSE [mem |-> (addr :> val) @@ m, err |-> "nil"]

\* MemorySegmentManager.AddSegment: the base of the segment it allocates
AddSegment(nsegs) == [base |-> NewRelocatable(nsegs, 0), num_segments |-> nsegs + 1]

-----------------------------------------------------------------------------
(* The dict manager (pkg/hints/dict_manager) *)

\* the size of one DictAccess entry of a dict segment
DICT_ACCESS_SIZE == 3

\* the names the modelled hints look up in the execution scopes
ScopeNames == {"__dict_manager"}

\* NewDictManager: a manager with no trackers
NewDictManager == [type |-> "DictManager", trackers |-> [s \in {} |-> Nil]]

\* NewDefaultDictionary (of Dictionary): the initial entries and the default value
NewDefaultDictionaryData(defaultValue, dict) ==
    [dict |-> dict, defaultValue |-> defaultValue]

\* NewDictTrackerForDefaultDictionary
NewDictTrackerForDefaultDictionary(base, defaultValue, dict) ==
    [data |-> NewDefaultDictionaryData(defaultValue, dict), currentPtr |-> base]

\* DictManager.NewDefaultDictionary: allocates a segment and registers its tracker.
\* The hint passes no initial entries, so the dictionary starts empty.
NewDefaultDictionary(d, defaultValue, nsegs) ==
    LET seg == AddSegment(nsegs) IN
    [base         |-> seg.base,
     num_segments |-> seg.num_segments,
     manager      |-> [d EXCEPT !.trackers =
                          (seg.base.SegmentIndex :>
                              NewDictTrackerForDefaultDictionary(
                                  seg.base, defaultValue, [k \in {} |-> Nil]))
                          @@ @]]

\* NewDictionary (of Dictionary): the initial entries and no default value
NewDictionaryData(dict) == [dict |-> dict, defaultValue |-> Nil]

\* NewDictTrackerForDictionary
NewDictTrackerForDictionary(base, dict) ==
    [data |-> NewDictionaryData(dict), currentPtr |-> base]

\* DictManager.NewDictionary: allocates a segment and registers the tracker of a
\* dictionary that has the given entries and no default value.
NewDictionary(d, dict, nsegs) ==
    LET seg == AddSegment(nsegs) IN
    [base         |-> seg.base,
     num_segments |-> seg.num_segments,
     manager      |-> [d EXCEPT !.trackers =
                          (seg.base.SegmentIndex :>
                              NewDictTrackerForDictionary(seg.base, dict))
                          @@ @]]

\* A GetTracker that hands out the tracker of the segment whatever the pointer is;
\* C1 is checked against it.
GetTrackerAnyPointer(d, dict_ptr) ==
    IF dict_ptr.SegmentIndex \notin DOMAIN d.trackers
    THEN [tracker |-> Nil, err |-> "Dict Error: No dict tracker found for segment"]
    ELSE [tracker |-> d.trackers[dict_ptr.SegmentIndex], err |-> "nil"]

\* DictManager.GetTracker.  The tracker it returns is a copy of the map's entry
\* (the map holds DictTracker values, and the address returned is that of a local).
GetTracker(d, dict_ptr) ==
    IF dict_ptr.SegmentIndex \notin DOMAIN d.trackers
    THEN [tracker |-> Nil, err |-> "Dict Error: No dict tracker found for segment"]
    ELSE LET tracker == d.trackers[dict_ptr.SegmentIndex] IN
         IF tracker.currentPtr # dict_ptr
         THEN [tracker |-> Nil, err |-> "Dict Error: Wrong dict pointer supplied",
               got |-> dict_ptr, expected |-> tracker.currentPtr]
         ELSE [tracker |-> tracker, err |-> "nil"]

\* Dictionary.Get: the stored value, else the default value, which it also stores
DictionaryGet(data, key) ==
    IF key \in DOMAIN data.dict
    THEN [val |-> data.dict[key], data |-> data]
    ELSE IF data.defaultValue # Nil
    THEN [val  |-> data.defaultValue,
          data |-> [data EXCEPT !.dict = (key :> data.defaultValue) @@ @]]
    ELSE [val |-> Nil, data |-> data]

\* Dictionary.Insert
DictionaryInsert(data, key, val) ==
    [data EXCEPT !.dict = (key :> val) @@ @]

\* DictTracker.GetValue
GetValue(tracker, key) ==
    LET got == DictionaryGet(tracker.data, key) IN
    [val |-> got.val, tracker |-> [tracker EXCEPT !.data = got.data]]

\* The error of GetValue as the hints call it, with a value and an error: there is
\* no value for the key (none stored, and no default value).
GetValueError(got) == IF got.val = Nil THEN "DictKeyNotFound" ELSE "nil"

\* DictTracker.InsertValue
InsertValue(tracker, key, val) ==
    [tracker EXCEPT !.data = DictionaryInsert(tracker.data, key, val)]

\* What the manager's map holds once a hint is done with the tracker GetTracker gave
\* it: the copy shares the Go map data.dict with the entry, so entries written
\* through the copy are in the manager's tracker; the copy's own fields are not.
HeldTracker(held, copy) ==
    [held EXCEPT !.data.dict = copy.data.dict]

\* the manager after a hint has worked on the copy of the tracker of segment seg
WithTracker(d, seg, copy) ==
    [d EXCEPT !.trackers[seg] = HeldTracker(@, copy)]

-----------------------------------------------------------------------------
(* The dict hints (pkg/hints/dict_hints) *)

\* The state a hint works on and leaves: the scopes, the memory and the segments.
HintState(sc, m, nsegs) == [scopes |-> sc, mem |-> m, num_segments |-> nsegs]

\* a hint's return: its error and the state it leaves
HintReturn(err, st) == [err |-> err, state |-> st]

\* a hint's return of the error e a call gave it, with what the error reports
HintReturnError(e, st) ==
    IF "got" \in DOMAIN e
    THEN [err |-> e.err, got |-> e.got, expected |-> e.expected, state |-> st]
    ELSE HintReturn(e.err, st)

\* ExecutionScopes.Get
ScopesGet(sc, name) ==
    IF name \in DOMAIN sc /\ sc[name] # Nil
    THEN [val |-> sc[name], err |-> "nil"]
    ELSE [val |-> Nil, err |-> "VariableNotInScope"]

\* ExecutionScopes.AssignOrUpdateVariable
AssignOrUpdateVariable(sc, name, val) == [sc EXCEPT ![name] = val]

\* IdsManager.Insert: writes the value at the address the identifier resolves to
IdsInsert(st, addr, val) == MemoryInsert(st.mem, st.num_segments, addr, val)

\* FetchDictManager: the scopes' "__dict_manager", if it is a DictManager
FetchDictManager(sc) ==
    LET dictManager == ScopesGet(sc, "__dict_manager") IN
    IF dictManager.err # "nil"
    THEN [val |-> Nil, ok |-> FALSE]
    ELSE IF dictManager.val.type = "DictManager"
    THEN [val |-> dictManager.val, ok |-> TRUE]
    ELSE [val |-> Nil, ok |-> FALSE]

NoDictManager == "Variable __dict_manager not present in current execution scope"

\* A defaultDictNew that makes a new manager on every call; C5 is checked against it.
defaultDictNewFresh(ids, st, ap) ==
    LET new      == NewDefaultDictionary(NewDictManager, ids.default_value,
                                         st.num_segments)
        inserted == MemoryInsert(st.mem, new.num_segments, ap,
                                 NewMaybeRelocatableRelocatable(new.base))
    IN  [err   |-> inserted.err,
         state |-> [scopes       |-> [st.scopes EXCEPT !["__dict_manager"] = new.manager],
                    mem          |-> inserted.mem,
                    num_segments |-> new.num_segments]]

\* defaultDictNew: ids.default_value is read; the base is written at ap
defaultDictNew(ids, st, ap) ==
    LET fetched     == FetchDictManager(st.scopes)
        dictManager == IF fetched.ok THEN fetched.val ELSE NewDictManager
        new         == NewDefaultDictionary(dictManager, ids.default_value,
                                            st.num_segments)
        inserted    == MemoryInsert(st.mem, new.num_segments, ap,
                                    NewMaybeRelocatableRelocatable(new.base))
    IN  HintReturn(inserted.err,
                   HintState(AssignOrUpdateVariable(st.scopes, "__dict_manager",
                                                    new.manager),
                             inserted.mem, new.num_segments))

\* dictRead: ids.dict_ptr and ids.key are read, ids.value is written
dictRead(ids, st) ==
    LET fetched == FetchDictManager(st.scopes) IN
    IF ~fetched.ok THEN HintReturn(NoDictManager, st) ELSE
    LET got == GetTracker(fetched.val, ids.dict_ptr) IN
    IF got.err # "nil" THEN HintReturnError(got, st) ELSE
    LET tracker  == [got.tracker EXCEPT !.currentPtr.Offset = @ + DICT_ACCESS_SIZE]
        val      == GetValue(tracker, ids.key)
        manager  == WithTracker(fetched.val, ids.dict_ptr.SegmentIndex, val.tracker)
        st1      == [st EXCEPT !.scopes["__dict_manager"] = manager]
        inserted == IdsInsert(st1, ids.value, val.val)
    IN  IF GetValueError(val) # "nil" THEN HintReturn(GetValueError(val), st1)
        ELSE HintReturn("nil", [st1 EXCEPT !.mem = inserted.mem])

\* dictWrite: ids.dict_ptr, ids.key and ids.new_value are read, ids.prev_value is written
dictWrite(ids, st) ==
    LET fetched == FetchDictManager(st.scopes) IN
    IF ~fetched.ok THEN HintReturn(NoDictManager, st) ELSE
    LET got == GetTracker(fetched.val, ids.dict_ptr) IN
    IF got.err # "nil" THEN HintReturnError(got, st) ELSE
    LET tracker  == [got.tracker EXCEPT !.currentPtr.Offset = @ + DICT_ACCESS_SIZE]
        prev_val == GetValue(tracker, ids.key)
        st0      == [st EXCEPT !.scopes["__dict_manager"] =
                        WithTracker(fetched.val, ids.dict_ptr.SegmentIndex,
                                    prev_val.tracker)]
        inserted == IdsInsert(st0, ids.prev_value, prev_val.val)
        tracker1 == InsertValue(prev_val.tracker, ids.key, ids.new_value)
        manager  == WithTracker(fetched.val, ids.dict_ptr.SegmentIndex, tracker1)
    IN  IF GetValueError(prev_val) # "nil"
        THEN HintReturn(GetValueError(prev_val), st0)
        ELSE HintReturn("nil", [st EXCEPT !.scopes["__dict_manager"] = manager,
                                          !.mem = inserted.mem])

\* A dictUpdate that stores the new value without comparing the previous one; C4 is
\* checked against it.
dictUpdateUnchecked(ids, st) ==
    LET fetched == FetchDictManager(st.scopes) IN
    IF ~fetched.ok THEN HintReturn(NoDictManager, st) ELSE
    LET got == GetTracker(fetched.val, ids.dict_ptr) IN
    IF got.err # "nil" THEN HintReturnError(got, st) ELSE
    LET tracker1 == InsertValue(got.tracker, ids.key, ids.new_value) IN
    HintReturn("nil",
        [st EXCEPT !.scopes["__dict_manager"] =
            WithTracker(fetched.val, ids.dict_ptr.SegmentIndex, tracker1)])

\* dictUpdate: ids.dict_ptr, ids.key, ids.new_value and ids.prev_value are read
dictUpdate(ids, st) ==
    LET fetched == FetchDictManager(st.scopes) IN
    IF ~fetched.ok THEN HintReturn(NoDictManager, st) ELSE
    LET got == GetTracker(fetched.val, ids.dict_ptr) IN
    IF got.err # "nil" THEN HintReturnError(got, st) ELSE
    LET current_value == GetValue(got.tracker, ids.key)
        seg           == ids.dict_ptr.SegmentIndex
    IN  IF GetValueError(current_value) # "nil"
        THEN HintReturn(GetValueError(current_value),
                 [st EXCEPT !.scopes["__dict_manager"] =
                     WithTracker(fetched.val, seg, current_value.tracker)])
        ELSE
        IF ids.prev_value # current_value.val
        THEN [err      |-> "Wrong previous value in dict.",
              got      |-> current_value.val,
              expected |-> ids.prev_value,
              state    |-> [st EXCEPT !.scopes["__dict_manager"] =
                               WithTracker(fetched.val, seg, current_value.tracker)]]
        ELSE LET tracker1 == InsertValue(current_value.tracker, ids.key, ids.new_value)
                 tracker2 == [tracker1 EXCEPT
                                 !.currentPtr.Offset = @ + DICT_ACCESS_SIZE]
             IN  HintReturn("nil",
                     [st EXCEPT !.scopes["__dict_manager"] =
                         WithTracker(fetched.val, seg, tracker2)])

-----------------------------------------------------------------------------
(* The hint processor (pkg/hints/hint_processor.go) *)

\* The hint codes, each named as its constant of hint_codes is.
DispatchedCodes ==
    {"ADD_SEGMENT", "ASSERT_NN", "IS_POSITIVE", "ASSERT_NOT_ZERO", "IS_QUAD_RESIDUE",
     "DEFAULT_DICT_NEW", "DICT_READ", "DICT_WRITE", "DICT_UPDATE", "VM_EXIT_SCOPE",
     "ASSERT_NOT_EQUAL", "EC_NEGATE", "EC_NEGATE_EMBEDDED_SECP", "POW", "SQRT",
     "MEMCPY_ENTER_SCOPE", "VM_ENTER_SCOPE", "SET_ADD", "FIND_ELEMENT",
     "SEARCH_SORTED_LOWER"}

\* codes of hint_codes and of the hints package that have an implementation or a
\* constant in the sources, and a text that is no hint's code
OtherCodes == {"UNSAFE_KECCAK", "UINT256_ADD", "UINT256_ADD_LOW", "print(ids.x)"}

HintCodes == DispatchedCodes \cup OtherCodes

\* A hint implementation whose body is outside the modelled sources: the model
\* records that ExecuteHint called it and leaves the state as it was.
ExternalHint(st) == HintReturn("external", st)

\* A default case that allocates a segment before it returns its error; C7 is
\* checked against it.
UnknownHintAfterAddSegment(st) ==
    [impl |-> "add_segment",
     ret  |-> HintReturn("Unknown Hint", [st EXCEPT !.num_segments = @ + 1])]

\* the default case of ExecuteHint's switch: no implementation is called
UnknownHint(st) == [impl |-> "none", ret |-> HintReturn("Unknown Hint", st)]

\* ExecuteHint's return when the hint data is not a HintData
WrongHintData(st) == [impl |-> "none", ret |-> HintReturn("Wrong Hint Data", st)]

\* CairoVmHintProcessor.ExecuteHint: the implementation it calls and what that returns
ExecuteHint(hintData, st, ap) ==
    IF hintData.type # "HintData"
    THEN WrongHintData(st)
    ELSE CASE hintData.Code = "ADD_SEGMENT" ->
                [impl |-> "add_segment", ret |-> ExternalHint(st)]
           [] hintData.Code = "ASSERT_NN" ->
                [impl |-> "assert_nn", ret |-> ExternalHint(st)]
           [] hintData.Code = "IS_POSITIVE" ->
                [impl |-> "is_positive", ret |-> ExternalHint(st)]
           [] hintData.Code = "ASSERT_NOT_ZERO" ->
                [impl |-> "assert_not_zero", ret |-> ExternalHint(st)]
           [] hintData.Code = "IS_QUAD_RESIDUE" ->
                [impl |-> "is_quad_residue", ret |-> ExternalHint(st)]
           [] hintData.Code = "DEFAULT_DICT_NEW" ->
                [impl |-> "defaultDictNew", ret |-> defaultDictNew(hintData.Ids, st, ap)]
           [] hintData.Code = "DICT_READ" ->
                [impl |-> "dictRead", ret |-> dictRead(hintData.Ids, st)]
           [] hintData.Code = "DICT_WRITE" ->
                [impl |-> "dictWrite", ret |-> dictWrite(hintData.Ids, st)]
           [] hintData.Code = "DICT_UPDATE" ->
                [impl |-> "dictUpdate", ret |-> dictUpdate(hintData.Ids, st)]
           [] hintData.Code = "VM_EXIT_SCOPE" ->
                [impl |-> "vm_exit_scope", ret |-> ExternalHint(st)]
           [] hintData.Code = "ASSERT_NOT_EQUAL" ->
                [impl |-> "assert_not_equal", ret |-> ExternalHint(st)]
           [] hintData.Code = "EC_NEGATE" ->
                [impl |-> "ecNegateImportSecpP", ret |-> ExternalHint(st)]
           [] hintData.Code = "EC_NEGATE_EMBEDDED_SECP" ->
                [impl |-> "ecNegateEmbeddedSecpP", ret |-> ExternalHint(st)]
           [] hintData.Code = "POW" ->
                [impl |-> "pow", ret |-> ExternalHint(st)]
           [] hintData.Code = "SQRT" ->
                [impl |-> "sqrt", ret |-> ExternalHint(st)]
           [] hintData.Code = "MEMCPY_ENTER_SCOPE" ->
                [impl |-> "memcpy_enter_scope", ret |-> ExternalHint(st)]
           [] hintData.Code = "VM_ENTER_SCOPE" ->
                [impl |-> "vm_enter_scope", ret |-> ExternalHint(st)]
           [] hintData.Code = "SET_ADD" ->
                [impl |-> "set_add", ret |-> ExternalHint(st)]
           [] hintData.Code = "FIND_ELEMENT" ->
                [impl |-> "find_element", ret |-> ExternalHint(st)]
           [] hintData.Code = "SEARCH_SORTED_LOWER" ->
                [impl |-> "search_sorted_lower", ret |-> ExternalHint(st)]
           [] OTHER -> UnknownHint(st)

-----------------------------------------------------------------------------
(* Instructions and the ap register (pkg/vm) *)

\* An Instruction with every selector at its first value; the actions vary the
\* fields the code they model reads.
DefaultInstruction ==
    [Off0 |-> 0, Off1 |-> 0, Off2 |-> 0,
     DstReg |-> "AP", Op0Reg |-> "AP", Op1Addr |-> "Op1SrcAP",
     ResLogic |-> "ResOp1", PcUpdate |-> "PcUpdateRegular",
     ApUpdate |-> "ApUpdateRegular", FpUpdate |-> "FpUpdateRegular",
     Opcode |-> "NOp"]

\* Instruction.Size: 2 with an immediate, else 1
Size(ins) == IF ins.Op1Addr = "Op1SrcImm" THEN 2 ELSE 1

\* VirtualMachine.UpdateAp: the error and the registers it leaves
UpdateAp(ins, ops, rc) ==
    CASE ins.ApUpdate = "ApUpdateAdd" ->
            IF ops.Res = Nil
            THEN [err |-> "Res.UNCONSTRAINED cannot be used with ApUpdate.ADD",
                  run_context |-> rc]
            ELSE LET new_ap == RelocatableAddMaybeRelocatable(rc.Ap, ops.Res) IN
                 IF new_ap.err # "nil"
                 THEN [err |-> new_ap.err, run_context |-> rc]
                 ELSE [err |-> "nil", run_context |-> [rc EXCEPT !.Ap = new_ap.val]]
      [] ins.ApUpdate = "ApUpdateAdd1" ->
            [err |-> "nil",
             run_context |-> [rc EXCEPT !.Ap.Offset = (@ + 1) % LimbModulus]]
      [] ins.ApUpdate = "ApUpdateAdd2" ->
            [err |-> "nil",
             run_context |-> [rc EXCEPT !.Ap.Offset = (@ + 2) % LimbModulus]]
      [] OTHER -> [err |-> "nil", run_context |-> rc]

-----------------------------------------------------------------------------
(* Operands and opcode assertions (pkg/vm/vm_core.go) *)

\* Relocatable.SubUint
SubUint(r, other) ==
    IF r.Offset < other
    THEN [val |-> ZeroRelocatable, err |-> "RelocatableSubUsizeNegOffset"]
    ELSE [val |-> NewRelocatable(r.SegmentIndex, r.Offset - other), err |-> "nil"]

\* a register plus a signed offset
AddOffset(base, off) ==
    IF off < 0 THEN SubUint(base, -off) ELSE AddUint(base, off)

\* RunContext.ComputeDstAddr
ComputeDstAddr(rc, ins) ==
    AddOffset(IF ins.DstReg = "AP" THEN rc.Ap ELSE rc.Fp, ins.Off0)

\* RunContext.ComputeOp0Addr
ComputeOp0Addr(rc, ins) ==
    AddOffset(IF ins.Op0Reg = "AP" THEN rc.Ap ELSE rc.Fp, ins.Off1)

\* RunContext.ComputeOp1Addr: the base is pc, the address held in op0, ap or fp
ComputeOp1Addr(rc, ins, op0) ==
    CASE ins.Op1Addr = "Op1SrcImm" -> AddOffset(rc.Pc, ins.Off2)
      [] ins.Op1Addr = "Op1SrcOp0" ->
            IF GetRelocatable(op0).ok
            THEN AddOffset(GetRelocatable(op0).val, ins.Off2)
            ELSE [val |-> ZeroRelocatable, err |-> "ExpectedRelocatable"]
      [] ins.Op1Addr = "Op1SrcAP" -> AddOffset(rc.Ap, ins.Off2)
      [] OTHER -> AddOffset(rc.Fp, ins.Off2)

\* the zero value Operands{}
EmptyOperands == [Dst |-> Empty, Res |-> Nil, Op0 |-> Empty, Op1 |-> Empty]

\* VirtualMachine.ComputeRes
ComputeRes(ins, op0, op1) ==
    CASE ins.ResLogic = "ResOp1" -> [val |-> op1, err |-> "nil"]
      [] ins.ResLogic = "ResAdd" ->
            LET maybe_rel == AddMaybeRelocatable(op0, op1) IN
            IF maybe_rel.err # "nil"
            THEN [val |-> Nil, err |-> maybe_rel.err]
            ELSE [val |-> maybe_rel.val, err |-> "nil"]
      [] ins.ResLogic = "ResMul" ->
            IF GetInt(op0).ok /\ GetInt(op1).ok
            THEN [val |-> NewMaybeRelocatableInt(FeltMul(GetInt(op0).val,
                                                         GetInt(op1).val)),
                  err |-> "nil"]
            ELSE [val |-> Nil, err |-> "ComputeResRelocatableMul"]
      [] OTHER -> [val |-> Nil, err |-> "nil"]

\* VirtualMachine.ComputeOperands: the operands and the error it returns.  Each
\* early return hands back err, the error of the address computation before it.
ComputeOperands(ins, rc, m) ==
    LET dst_addr == ComputeDstAddr(rc, ins) IN
    IF dst_addr.err # "nil"
    THEN [operands |-> EmptyOperands, err |-> "FailedToComputeDstAddr"] ELSE
    LET dst_op == MemoryGet(m, dst_addr.val) IN
    IF dst_op.err # "nil"
    THEN [operands |-> EmptyOperands, err |-> dst_addr.err] ELSE
    LET op0_addr == ComputeOp0Addr(rc, ins) IN
    IF op0_addr.err # "nil"
    THEN [operands |-> EmptyOperands, err |-> "FailedToComputeOp0Addr"] ELSE
    LET op0_op == MemoryGet(m, op0_addr.val) IN
    IF op0_op.err # "nil"
    THEN [operands |-> EmptyOperands, err |-> op0_addr.err] ELSE
    LET op1_addr == ComputeOp1Addr(rc, ins, op0_op.val) IN
    IF op1_addr.err # "nil"
    THEN [operands |-> EmptyOperands, err |-> "FailedToComputeOp1Addr"] ELSE
    LET op1_op == MemoryGet(m, op1_addr.val) IN
    IF op1_op.err # "nil"
    THEN [operands |-> EmptyOperands, err |-> op1_addr.err] ELSE
    LET res == ComputeRes(ins, op0_op.val, op1_op.val) IN
    [operands |-> [Dst |-> dst_op.val, Res |-> res.val,
                   Op0 |-> op0_op.val, Op1 |-> op1_op.val],
     err |-> "nil"]

\* VirtualMachine.OpcodeAssertions: the error it returns
OpcodeAssertions(ins, ops, rc) ==
    CASE ins.Opcode = "AssertEq" ->
            IF ops.Res = Nil THEN "UnconstrainedResAssertEq"
            ELSE IF ~IsEqual(ops.Res, ops.Dst) THEN "DiffAssertValues"
            ELSE "nil"
      [] ins.Opcode = "Call" ->
            LET new_rel  == AddUint(rc.Pc, Size(ins))
                returnPC == NewMaybeRelocatableRelocatable(new_rel.val)
                returnFP == rc.Fp
                dstRelocatable == GetRelocatable(ops.Dst).val
            IN  IF new_rel.err # "nil" THEN new_rel.err
                ELSE IF ~IsEqual(ops.Op0, returnPC) THEN "CantWriteReturnPc"
                ELSE IF ~RelocatableIsEqual(returnFP, dstRelocatable)
                THEN "CantWriteReturnFp"
                ELSE "nil"
      [] OTHER -> "nil"

-----------------------------------------------------------------------------
(* The hints specifications: hints executed on a VM the runner has initialized *)

\* the values programs store in dictionaries, and the keys they use
DictValues == {NewMaybeRelocatableInt(0), NewMaybeRelocatableInt(1)}

DictKeys == {NewMaybeRelocatableInt(1), NewMaybeRelocatableInt(2)}

\* the pointers a hint may be given: into the execution segment (never a dict) and
\* into the segments dictionaries get, at the base and one and two accesses further
DictPtrs(cap) ==
    {NewRelocatable(s, o) : s \in 1 .. (1 + cap),
                            o \in {0, DICT_ACCESS_SIZE, 2 * DICT_ACCESS_SIZE}}

\* the cell the output identifiers ids.value and ids.prev_value resolve to
IdsCells == {NewRelocatable(1, 1)}

HintData(code, ids) == [type |-> "HintData", Code |-> code, Ids |-> ids]

DictCodes == {"DEFAULT_DICT_NEW", "DICT_READ", "DICT_WRITE", "DICT_UPDATE"}

NewDictHintDatas ==
    {HintData("DEFAULT_DICT_NEW", [default_value |-> v]) : v \in DictValues}

\* what ExecuteHint may be handed: compiled hints with the given codes, the dict
\* hints with the given keys, and a value that is no HintData
HintDatas(cap, keys, codes) ==
    {[type |-> "other"]}
    \cup {HintData(c, Nil) : c \in codes \ DictCodes}
    \cup NewDictHintDatas
    \cup {HintData("DICT_READ", [dict_ptr |-> p, key |-> k, value |-> a]) :
             p \in DictPtrs(cap), k \in keys, a \in IdsCells}
    \cup {HintData("DICT_WRITE",
                   [dict_ptr |-> p, key |-> k, new_value |-> v, prev_value |-> a]) :
             p \in DictPtrs(cap), k \in keys, v \in DictValues, a \in IdsCells}
    \cup {HintData("DICT_UPDATE",
                   [dict_ptr |-> p, key |-> k, new_value |-> v, prev_value |-> w]) :
             p \in DictPtrs(cap), k \in keys, v \in DictValues, w \in DictValues}

\* the registers after the runner's initialization, with an empty initial stack
InitializedRunContext ==
    [Pc |-> NewRelocatable(0, 0), Ap |-> NewRelocatable(1, 0), Fp |-> NewRelocatable(1, 0)]

\* The runner has allocated the program and execution segments; the scopes hold no
\* dict manager, or hold another value under its name.
HintsInit ==
    /\ run_context = InitializedRunContext
    /\ num_segments = 2
    /\ mem = [a \in {} |-> Nil]
    /\ scopes \in {[n \in ScopeNames |-> Nil], [n \in ScopeNames |-> [type |-> "int"]]}
    /\ instruction = Nil
    /\ operands = Nil
    /\ verified_addresses = << >>
    /\ builtin_base = ZeroRelocatable
    /\ trace = << >>
    /\ relocated_trace = << >>
    /\ ret = [op |-> "init", err |-> "nil"]

\* No error is recovered: the first error a call returns ends the run.  (A hint
\* whose body is not modelled returns "external", and the run goes on.)
Running == ret.err \in {"nil", "external"}

\* One call of ExecuteHint.  At most cap dictionaries are created.
ExecuteHintStep(hintData, cap) ==
    LET st == HintState(scopes, mem, num_segments)
        r  == ExecuteHint(hintData, st, run_context.Ap)
    IN  /\ Running
        /\ (hintData.type = "HintData" /\ hintData.Code = "DEFAULT_DICT_NEW")
              => num_segments < 2 + cap
        /\ scopes' = r.ret.state.scopes
        /\ mem' = r.ret.state.mem
        /\ num_segments' = r.ret.state.num_segments
        /\ ret' = [op       |-> "ExecuteHint",
                   hintData |-> hintData,
                   impl     |-> r.impl,
                   err      |-> r.ret.err,
                   got      |-> IF "got" \in DOMAIN r.ret THEN r.ret.got ELSE Nil,
                   expected |-> IF "expected" \in DOMAIN r.ret THEN r.ret.expected
                                ELSE Nil,
                   before   |-> scopes["__dict_manager"]]
        /\ UNCHANGED <<run_context, instruction, operands, verified_addresses, builtin_base, trace, relocated_trace>>

\* One call of UpdateAp, as the VM makes between two hints.
UpdateApStep ==
    \E au \in {"ApUpdateRegular", "ApUpdateAdd", "ApUpdateAdd1", "ApUpdateAdd2"},
       res \in {Nil, NewMaybeRelocatableInt(1),
                NewMaybeRelocatableRelocatable(NewRelocatable(1, 0))} :
        LET ins == [DefaultInstruction EXCEPT !.ApUpdate = au]
            ops == [Dst |-> Empty, Res |-> res, Op0 |-> Empty, Op1 |-> Empty]
            r   == UpdateAp(ins, ops, run_context)
        IN  /\ Running
            /\ r.run_context.Ap.Offset <= MaxOffset
            /\ r.run_context.Ap.Offset >= run_context.Ap.Offset
            /\ run_context' = r.run_context
            /\ ret' = [op |-> "UpdateAp", ApUpdate |-> au, Res |-> res, err |-> r.err]
            /\ UNCHANGED <<num_segments, mem, scopes, instruction, operands,
                           verified_addresses, builtin_base, trace, relocated_trace>>

\* the entries a dictionary is created with by NewDictionary
InitialDicts ==
    {[k \in {} |-> Nil], (NewMaybeRelocatableInt(1) :> NewMaybeRelocatableInt(1))}

\* One call of DictManager.NewDictionary on the manager the scopes hold.  At most
\* cap dictionaries are created.
NewDictionaryStep(cap) ==
    LET fetched == FetchDictManager(scopes) IN
    /\ Running
    /\ fetched.ok
    /\ num_segments < 2 + cap
    /\ \E dict \in InitialDicts :
          LET new == NewDictionary(fetched.val, dict, num_segments) IN
          /\ scopes' = [scopes EXCEPT !["__dict_manager"] = new.manager]
          /\ num_segments' = new.num_segments
          /\ ret' = [op |-> "NewDictionary", dict |-> dict, base |-> new.base,
                     err |-> "nil"]
    /\ UNCHANGED <<run_context, mem, instruction, operands, verified_addresses, builtin_base,
                   trace, relocated_trace>>

\* the codes SpecHints executes: the dict hints and a text that is no hint's code
DictRunCodes == DictCodes \cup {"print(ids.x)"}

HintsExecute ==
    \E hintData \in HintDatas(MaxDicts, DictKeys, DictRunCodes) :
        ExecuteHintStep(hintData, MaxDicts)

HintsNewDictionary == NewDictionaryStep(MaxDicts)

HintsNext == HintsExecute \/ HintsNewDictionary

\* the dict hints, executed in any order on any of their inputs, and dictionaries
\* without a default value created between them; ap stays where it is, so that
\* memory takes the base of one default dictionary
SpecHints == HintsInit /\ [][HintsNext]_vars

DictNewExecute == \E hintData \in NewDictHintDatas : ExecuteHintStep(hintData, MaxDicts)

DictNewNext == DictNewExecute \/ UpdateApStep

\* DEFAULT_DICT_NEW hints only, ap moving between them
SpecDictNew == HintsInit /\ [][DictNewNext]_vars

DispatchExecute ==
    \E hintData \in HintDatas(MaxDicts, {NewMaybeRelocatableInt(1)}, HintCodes) :
        ExecuteHintStep(hintData, MaxDicts)

DispatchNext == DispatchExecute

\* hints of every code, the dict hints on one key
SpecDispatch == HintsInit /\ [][DispatchNext]_vars

-----------------------------------------------------------------------------
(* The VM specification: one instruction's operands computed and asserted *)

\* the registers NewVirtualMachine leaves: the zero RunContext
ZeroRunContext == [Pc |-> ZeroRelocatable, Ap |-> ZeroRelocatable, Fp |-> ZeroRelocatable]

\* the values the drawn memory cells hold: small felts, the felt -1, addresses
CellValues ==
    {NewMaybeRelocatableInt(0), NewMaybeRelocatableInt(1),
     NewMaybeRelocatableInt(FeltPrime - 1),
     NewMaybeRelocatableRelocatable(NewRelocatable(0, 0)),
     NewMaybeRelocatableRelocatable(NewRelocatable(0, 1)),
     NewMaybeRelocatableRelocatable(NewRelocatable(1, 0))}

\* the memory with the given cells of segment seg, Nil meaning an unknown cell
MemoryOf(seg, cells) ==
    LET known == {o \in DOMAIN cells : cells[o] # Nil} IN
    [a \in {NewRelocatable(seg, o) : o \in known} |-> cells[a.Offset]]

\* the instructions drawn: dst at offset 0 of its register, op0 at 1, op1 at 2 of
\* its base (an immediate at pc + 1)
Instructions ==
    {[DefaultInstruction EXCEPT !.Opcode = oc, !.ResLogic = rl, !.Op1Addr = src,
                                !.Off0 = d, !.Off1 = 1,
                                !.Off2 = IF src = "Op1SrcImm" THEN 1 ELSE 2] :
        oc  \in {"NOp", "AssertEq", "Call", "Ret"},
        rl  \in {"ResOp1", "ResAdd", "ResMul", "ResUnconstrained"},
        src \in {"Op1SrcImm", "Op1SrcAP", "Op1SrcFP", "Op1SrcOp0"},
        d   \in {-1, 0}}

\* A VM as NewVirtualMachine leaves it, or as the runner initializes it, with a
\* decoded instruction and the memory loaded: the cells at offsets 0..2 of the
\* segment ap and fp point into hold any of the cell values or are unknown.
VmInit ==
    /\ run_context \in {ZeroRunContext, InitializedRunContext}
    /\ num_segments = 2
    /\ \E cells \in [0 .. 2 -> CellValues \cup {Nil}] :
           mem = MemoryOf(run_context.Ap.SegmentIndex, cells)
    /\ scopes = [n \in ScopeNames |-> Nil]
    /\ instruction \in Instructions
    /\ operands = Nil
    /\ verified_addresses = << >>
    /\ builtin_base = ZeroRelocatable
    /\ trace = << >>
    /\ relocated_trace = << >>
    /\ ret = [op |-> "init", err |-> "nil"]

\* ComputeOperands on the fetched instruction
ComputeOperandsStep ==
    /\ ret.op = "init"
    /\ LET r == ComputeOperands(instruction, run_context, mem) IN
       /\ operands' = r.operands
       /\ ret' = [op |-> "ComputeOperands", err |-> r.err]
    /\ UNCHANGED <<run_context, num_segments, mem, scopes, instruction,
                   verified_addresses, builtin_base, trace, relocated_trace>>

\* OpcodeAssertions on the operands ComputeOperands returned without an error
OpcodeAssertionsStep ==
    /\ ret.op = "ComputeOperands"
    /\ ret.err = "nil"
    /\ ret' = [op  |-> "OpcodeAssertions",
               err |-> OpcodeAssertions(instruction, operands, run_context)]
    /\ UNCHANGED <<run_context, num_segments, mem, scopes, instruction, operands,
                   verified_addresses, builtin_base, trace, relocated_trace>>

VmNext == ComputeOperandsStep \/ OpcodeAssertionsStep

SpecVm == VmInit /\ [][VmNext]_vars

-----------------------------------------------------------------------------
(* Operand deduction (pkg/vm/vm_core.go) *)

\* lambdaworks.Div: the field quotient, a times the inverse of b (b not zero)
FeltDiv(a, b) == CHOOSE q \in Felts : FeltMul(q, b) = a

\* Felt.IsZero
FeltIsZero(a) == a = FeltFromUint64(0)

\* Relocatable minus a felt: the offset is reduced in the field and must fit a uint
SubFelt(r, other) ==
    LET new_offset == ToU64(FeltSub(FeltFromUint64(r.Offset), other)) IN
    IF new_offset.err # "nil"
    THEN [val |-> ZeroRelocatable, err |-> new_offset.err]
    ELSE [val |-> NewRelocatable(r.SegmentIndex, new_offset.val), err |-> "nil"]

\* MaybeRelocatable.Sub: felt - felt, address - felt, and the distance of two
\* addresses of one segment; a felt minus an address and addresses of different
\* segments fail
Sub(m, other) ==
    LET m_int     == GetInt(m)
        other_int == GetInt(other)
        m_rel     == GetRelocatable(m)
        other_rel == GetRelocatable(other)
    IN  IF m_int.ok /\ other_int.ok
        THEN [val |-> NewMaybeRelocatableInt(FeltSub(m_int.val, other_int.val)),
              err |-> "nil"]
        ELSE IF m_rel.ok /\ other_int.ok
        THEN LET rel == SubFelt(m_rel.val, other_int.val) IN
             IF rel.err # "nil"
             THEN [val |-> Empty, err |-> rel.err]
             ELSE [val |-> NewMaybeRelocatableRelocatable(rel.val), err |-> "nil"]
        ELSE IF m_rel.ok /\ other_rel.ok
        THEN IF m_rel.val.SegmentIndex # other_rel.val.SegmentIndex
             THEN [val |-> Empty, err |-> "Cant subtract two relocatables with different segment index"]
             ELSE IF m_rel.val.Offset < other_rel.val.Offset
             THEN [val |-> Empty, err |-> "RelocatableSubUsizeNegOffset"]
             ELSE [val |-> NewMaybeRelocatableInt(
                               FeltFromUint64(m_rel.val.Offset - other_rel.val.Offset)),
                   err |-> "nil"]
        ELSE [val |-> Empty, err |-> "Cant sub a relocatable from an int"]

\* no deduction: nil, nil, nil
NoDeduction == [val |-> Nil, res |-> Nil, err |-> "nil"]

\* A Call case that advances the VM's pc in place instead of a copy of it; C11 is
\* checked against it.
DeduceOp0CallMovingPc(ins, rc) ==
    LET pc == NewRelocatable(rc.Pc.SegmentIndex,
                             (rc.Pc.Offset + Size(ins)) % LimbModulus)
    IN  [val |-> NewMaybeRelocatableRelocatable(pc), run_context |-> [rc EXCEPT !.Pc = pc]]

\* the Call case of DeduceOp0: a copy of pc is advanced by the instruction size
DeduceOp0Call(ins, rc) ==
    LET deduced_op0 == NewRelocatable(rc.Pc.SegmentIndex,
                                      (rc.Pc.Offset + Size(ins)) % LimbModulus)
    IN  [val |-> NewMaybeRelocatableRelocatable(deduced_op0), run_context |-> rc]

\* VirtualMachine.DeduceOp0: the deduced op0 and res, the error, and the registers
\* it leaves.  dst and op1 are pointers: Nil when the operand is unknown.
DeduceOp0(ins, dst, op1, rc) ==
    CASE ins.Opcode = "Call" ->
            LET call == DeduceOp0Call(ins, rc) IN
            [val |-> call.val, res |-> Nil, err |-> "nil",
             run_context |-> call.run_context]
      [] ins.Opcode = "AssertEq" /\ ins.ResLogic = "ResAdd"
            /\ dst # Nil /\ op1 # Nil ->
            LET deduced_op0 == Sub(dst, op1) IN
            IF deduced_op0.err # "nil"
            THEN [val |-> Nil, res |-> Nil, err |-> deduced_op0.err, run_context |-> rc]
            ELSE [val |-> deduced_op0.val, res |-> dst, err |-> "nil",
                  run_context |-> rc]
      [] ins.Opcode = "AssertEq" /\ ins.ResLogic = "ResMul"
            /\ dst # Nil /\ op1 # Nil ->
            LET dst_felt == GetInt(dst)
                op1_felt == GetInt(op1)
            IN  IF dst_felt.ok /\ op1_felt.ok /\ ~FeltIsZero(op1_felt.val)
                THEN [val |-> NewMaybeRelocatableInt(
                                  FeltDiv(dst_felt.val, op1_felt.val)),
                      res |-> dst, err |-> "nil", run_context |-> rc]
                ELSE [val |-> Nil, res |-> Nil, err |-> "nil", run_context |-> rc]
      [] OTHER -> [val |-> Nil, res |-> Nil, err |-> "nil", run_context |-> rc]

\* what a nil pointer dereference does: the runtime panics
NilDereference == "panic: runtime error: invalid memory address or nil pointer dereference"

\* VirtualMachine.DeduceOp1: the deduced op1 and res, and the error.  dst and op0
\* are pointers; the Mul case calls GetFelt on them without a nil check.
DeduceOp1(ins, dst, op0) ==
    IF ins.Opcode # "AssertEq" THEN NoDeduction ELSE
    CASE ins.ResLogic = "ResOp1" -> [val |-> dst, res |-> dst, err |-> "nil"]
      [] ins.ResLogic = "ResAdd" /\ op0 # Nil /\ dst # Nil ->
            LET dst_rel == Sub(dst, op0) IN
            IF dst_rel.err # "nil"
            THEN [val |-> Nil, res |-> Nil, err |-> dst_rel.err]
            ELSE [val |-> dst_rel.val, res |-> dst, err |-> "nil"]
      [] ins.ResLogic = "ResMul" ->
            IF dst = Nil \/ op0 = Nil
            THEN [val |-> Nil, res |-> Nil, err |-> NilDereference]
            ELSE LET dst_felt == GetInt(dst)
                     op0_felt == GetInt(op0)
                 IN  IF dst_felt.ok /\ op0_felt.ok /\ ~FeltIsZero(op0_felt.val)
                     THEN [val |-> NewMaybeRelocatableInt(
                                       FeltDiv(dst_felt.val, op0_felt.val)),
                           res |-> dst, err |-> "nil"]
                     ELSE NoDeduction
      [] OTHER -> NoDeduction

-----------------------------------------------------------------------------
(* The deduction specification: DeduceOp0, DeduceOp1 and ComputeRes applied to *)
(* the operands of one instruction                                            *)

\* the registers drawn: as NewVirtualMachine leaves them, as the runner sets them
\* for the entry point 0, and with pc further into the program
DeduceRunContexts ==
    {ZeroRunContext, InitializedRunContext,
     [InitializedRunContext EXCEPT !.Pc = NewRelocatable(0, 3)]}

\* the instructions drawn: every opcode and res logic, with and without an immediate
DeduceInstructions ==
    {[DefaultInstruction EXCEPT !.Opcode = oc, !.ResLogic = rl, !.Op1Addr = src] :
        oc  \in {"NOp", "AssertEq", "Call", "Ret"},
        rl  \in {"ResOp1", "ResAdd", "ResMul", "ResUnconstrained"},
        src \in {"Op1SrcImm", "Op1SrcAP"}}

\* An instruction has been decoded and its operands read: each of dst, op0, op1
\* is one of the cell values, or Nil when its cell is unknown.
DeduceInit ==
    /\ run_context \in DeduceRunContexts
    /\ num_segments = 2
    /\ mem = [a \in {} |-> Nil]
    /\ scopes = [n \in ScopeNames |-> Nil]
    /\ instruction \in DeduceInstructions
    /\ operands \in [Dst : CellValues \cup {Nil}, Op0 : CellValues \cup {Nil},
                     Op1 : CellValues \cup {Nil}, Res : {Nil}]
    /\ verified_addresses = << >>
    /\ builtin_base = ZeroRelocatable
    /\ trace = << >>
    /\ relocated_trace = << >>
    /\ ret = [op |-> "init", err |-> "nil"]

\* DeduceOp0 on the instruction, dst and op1
DeduceOp0Step ==
    /\ ret.op = "init"
    /\ LET r == DeduceOp0(instruction, operands.Dst, operands.Op1, run_context) IN
       /\ run_context' = r.run_context
       /\ ret' = [op |-> "DeduceOp0", val |-> r.val, res |-> r.res, err |-> r.err,
                  before |-> run_context]
    /\ UNCHANGED <<num_segments, mem, scopes, instruction, operands,
                   verified_addresses, builtin_base, trace, relocated_trace>>

\* DeduceOp1 on the instruction, dst and op0
DeduceOp1Step ==
    /\ ret.op = "init"
    /\ LET r == DeduceOp1(instruction, operands.Dst, operands.Op0) IN
       ret' = [op |-> "DeduceOp1", val |-> r.val, res |-> r.res, err |-> r.err,
               before |-> run_context]
    /\ UNCHANGED <<run_context, num_segments, mem, scopes, instruction, operands,
                   verified_addresses, builtin_base, trace, relocated_trace>>

\* ComputeRes on the instruction, op0 and op1, both known
ComputeResStep ==
    /\ ret.op = "init"
    /\ operands.Op0 # Nil
    /\ operands.Op1 # Nil
    /\ LET r == ComputeRes(instruction, operands.Op0, operands.Op1) IN
       ret' = [op |-> "ComputeRes", val |-> r.val, res |-> Nil, err |-> r.err,
               before |-> run_context]
    /\ UNCHANGED <<run_context, num_segments, mem, scopes, instruction, operands,
                   verified_addresses, builtin_base, trace, relocated_trace>>

DeduceNext == DeduceOp0Step \/ DeduceOp1Step \/ ComputeResStep

SpecDeduce == DeduceInit /\ [][DeduceNext]_vars

-----------------------------------------------------------------------------
(* The arithmetic specification: the additions of pkg/vm/memory applied to two *)
(* values                                                                      *)

\* every value: each Felt, and each Address of two segments
ArithValues ==
    {NewMaybeRelocatableInt(f) : f \in Felts}
        \cup {NewMaybeRelocatableRelocatable(NewRelocatable(s, o)) :
                 s \in 0 .. 1, o \in 0 .. (LimbModulus - 1)}

\* Two values are at hand, in operands.Op0 and operands.Op1.
ArithInit ==
    /\ run_context = ZeroRunContext
    /\ num_segments = 2
    /\ mem = [a \in {} |-> Nil]
    /\ scopes = [n \in ScopeNames |-> Nil]
    /\ instruction = DefaultInstruction
    /\ operands \in [Dst : {Nil}, Op0 : ArithValues, Op1 : ArithValues, Res : {Nil}]
    /\ verified_addresses = << >>
    /\ builtin_base = ZeroRelocatable
    /\ trace = << >>
    /\ relocated_trace = << >>
    /\ ret = [op |-> "init", err |-> "nil"]

\* op0.AddMaybeRelocatable(op1)
AddMaybeRelocatableStep ==
    /\ ret.op = "init"
    /\ LET r == AddMaybeRelocatable(operands.Op0, operands.Op1) IN
       ret' = [op |-> "AddMaybeRelocatable", val |-> r.val, err |-> r.err]
    /\ UNCHANGED <<run_context, num_segments, mem, scopes, instruction, operands,
                   verified_addresses, builtin_base, trace, relocated_trace>>

\* then the same addition in the other order, op1.AddMaybeRelocatable(op0)
AddSwappedStep ==
    /\ ret.op = "AddMaybeRelocatable"
    /\ LET r == AddMaybeRelocatable(operands.Op1, operands.Op0) IN
       ret' = [op |-> "AddSwapped", val |-> ret.val, err |-> ret.err,
               swapped_val |-> r.val, swapped_err |-> r.err]
    /\ UNCHANGED <<run_context, num_segments, mem, scopes, instruction, operands,
                   verified_addresses, builtin_base, trace, relocated_trace>>

\* op0.AddFelt(op1), for an address op0 and a felt op1
AddFeltStep ==
    /\ ret.op = "init"
    /\ GetRelocatable(operands.Op0).ok
    /\ GetInt(operands.Op1).ok
    /\ LET r == AddFelt(GetRelocatable(operands.Op0).val, GetInt(operands.Op1).val) IN
       ret' = [op |-> "AddFelt", val |-> r.val, err |-> r.err]
    /\ UNCHANGED <<run_context, num_segments, mem, scopes, instruction, operands,
                   verified_addresses, builtin_base, trace, relocated_trace>>

ArithNext == AddMaybeRelocatableStep \/ AddSwappedStep \/ AddFeltStep

SpecArith == ArithInit /\ [][ArithNext]_vars

-----------------------------------------------------------------------------
(* Register updates (pkg/vm/vm_core.go) *)

\* A jump of Jnz that stores the new pc before it looks at the error of the
\* addition; C14 is checked against it.
UpdatePcJumpStoringFirst(ops, rc) ==
    LET new_pc == RelocatableAddMaybeRelocatable(rc.Pc, ops.Op1) IN
    [err |-> new_pc.err, run_context |-> [rc EXCEPT !.Pc = new_pc.val]]

\* the jump of Jnz, taken when dst is not zero: pc.AddMaybeRelocatable(op1)
UpdatePcJump(ops, rc) ==
    LET new_pc == RelocatableAddMaybeRelocatable(rc.Pc, ops.Op1) IN
    IF new_pc.err # "nil"
    THEN [err |-> new_pc.err, run_context |-> rc]
    ELSE [err |-> "nil", run_context |-> [rc EXCEPT !.Pc = new_pc.val]]

\* VirtualMachine.UpdatePc: the error and the registers it leaves
UpdatePc(ins, ops, rc) ==
    CASE ins.PcUpdate = "PcUpdateRegular" ->
            [err |-> "nil",
             run_context |-> [rc EXCEPT !.Pc.Offset = (@ + Size(ins)) % LimbModulus]]
      [] ins.PcUpdate = "PcUpdateJump" ->
            IF ops.Res = Nil
            THEN [err |-> "Res.UNCONSTRAINED cannot be used with PcUpdate.JUMP",
                  run_context |-> rc]
            ELSE LET res == GetRelocatable(ops.Res) IN
                 IF ~res.ok
                 THEN [err |-> "An integer value as Res cannot be used with PcUpdate.JUMP",
                       run_context |-> rc]
                 ELSE [err |-> "nil", run_context |-> [rc EXCEPT !.Pc = res.val]]
      [] ins.PcUpdate = "PcUpdateJumpRel" ->
            IF ops.Res = Nil
            THEN [err |-> "Res.UNCONSTRAINED cannot be used with PcUpdate.JUMP_REL",
                  run_context |-> rc]
            ELSE LET res == GetInt(ops.Res) IN
                 IF ~res.ok
                 THEN [err |-> "A relocatable value as Res cannot be used with PcUpdate.JUMP_REL",
                       run_context |-> rc]
                 ELSE LET new_pc == AddFelt(rc.Pc, res.val) IN
                      IF new_pc.err # "nil"
                      THEN [err |-> new_pc.err, run_context |-> rc]
                      ELSE [err |-> "nil", run_context |-> [rc EXCEPT !.Pc = new_pc.val]]
      [] ins.PcUpdate = "PcUpdateJnz" ->
            IF IsZero(ops.Dst)
            THEN [err |-> "nil",
                  run_context |-> [rc EXCEPT !.Pc.Offset = (@ + Size(ins)) % LimbModulus]]
            ELSE UpdatePcJump(ops, rc)
      [] OTHER -> [err |-> "nil", run_context |-> rc]

\* VirtualMachine.UpdateFp: the error and the registers it leaves.  APPlus2 assigns
\* the offset of fp only.
UpdateFp(ins, ops, rc) ==
    CASE ins.FpUpdate = "FpUpdateAPPlus2" ->
            [err |-> "nil",
             run_context |-> [rc EXCEPT !.Fp.Offset = (rc.Ap.Offset + 2) % LimbModulus]]
      [] ins.FpUpdate = "FpUpdateDst" ->
            LET rel == GetRelocatable(ops.Dst) IN
            IF rel.ok
            THEN [err |-> "nil", run_context |-> [rc EXCEPT !.Fp = rel.val]]
            ELSE LET felt   == GetInt(ops.Dst)
                     new_fp == AddFelt(rc.Fp, felt.val)
                 IN  IF new_fp.err # "nil"
                     THEN [err |-> new_fp.err, run_context |-> rc]
                     ELSE [err |-> "nil", run_context |-> [rc EXCEPT !.Fp = new_fp.val]]
      [] OTHER -> [err |-> "nil", run_context |-> rc]

-----------------------------------------------------------------------------
(* The registers specification: pc, ap and fp under the updates of a run *)

\* the values of res, dst and op1 drawn: Felts that are zero, small, and above what
\* an unsigned integer holds, and Addresses of both segments
RegisterValues ==
    {NewMaybeRelocatableInt(0), NewMaybeRelocatableInt(1),
     NewMaybeRelocatableInt(FeltPrime - 1),
     NewMaybeRelocatableRelocatable(NewRelocatable(0, 1)),
     NewMaybeRelocatableRelocatable(NewRelocatable(1, 2))}

\* The VM as NewVirtualMachine leaves it, or as the runner sets it up, with no
\* instruction executed yet.
RegistersInit ==
    /\ run_context \in {ZeroRunContext, InitializedRunContext}
    /\ num_segments = 2
    /\ mem = [a \in {} |-> Nil]
    /\ scopes = [n \in ScopeNames |-> Nil]
    /\ instruction = DefaultInstruction
    /\ operands = EmptyOperands
    /\ verified_addresses = << >>
    /\ builtin_base = ZeroRelocatable
    /\ trace = << >>
    /\ relocated_trace = << >>
    /\ ret = [op |-> "init", err |-> "nil"]

\* pc and fp stay within the offsets 0..MaxOffset + 2, the furthest APPlus2 reaches
WithinOffsets(rc) ==
    /\ rc.Pc.Offset <= MaxOffset + 2
    /\ rc.Fp.Offset <= MaxOffset + 2
    /\ rc.Ap.Offset <= MaxOffset

\* UpdatePc on the instruction and operands, which become the state's
RegistersUpdatePc(ins, ops) ==
    LET r == UpdatePc(ins, ops, run_context) IN
    /\ Running
    /\ WithinOffsets(r.run_context)
    /\ run_context' = r.run_context
    /\ instruction' = ins
    /\ operands' = ops
    /\ ret' = [op |-> "UpdatePc", err |-> r.err, before |-> run_context]
    /\ UNCHANGED <<num_segments, mem, scopes, verified_addresses, builtin_base, trace, relocated_trace>>

\* UpdatePc for an instruction and operands; only the fields the selector reads
\* are drawn: the size for Regular, res for Jump and JumpRel, the size, dst and op1
\* for Jnz.
UpdatePcStep ==
    \/ \E src \in {"Op1SrcImm", "Op1SrcAP"} :
          RegistersUpdatePc([DefaultInstruction EXCEPT !.Op1Addr = src], EmptyOperands)
    \/ \E pu \in {"PcUpdateJump", "PcUpdateJumpRel"}, res \in RegisterValues \cup {Nil} :
          RegistersUpdatePc([DefaultInstruction EXCEPT !.PcUpdate = pu],
                            [EmptyOperands EXCEPT !.Res = res])
    \/ \E src \in {"Op1SrcImm", "Op1SrcAP"}, dst \in RegisterValues,
          op1 \in RegisterValues :
          RegistersUpdatePc([DefaultInstruction EXCEPT !.PcUpdate = "PcUpdateJnz",
                                                       !.Op1Addr = src],
                            [EmptyOperands EXCEPT !.Dst = dst, !.Op1 = op1])

\* UpdateFp on the instruction and operands, which become the state's
RegistersUpdateFp(ins, ops) ==
    LET r == UpdateFp(ins, ops, run_context) IN
    /\ Running
    /\ WithinOffsets(r.run_context)
    /\ run_context' = r.run_context
    /\ instruction' = ins
    /\ operands' = ops
    /\ ret' = [op |-> "UpdateFp", err |-> r.err, before |-> run_context]
    /\ UNCHANGED <<num_segments, mem, scopes, verified_addresses, builtin_base, trace, relocated_trace>>

\* UpdateFp for an instruction and operands; dst is drawn for the selector Dst.
UpdateFpStep ==
    \/ \E fu \in {"FpUpdateRegular", "FpUpdateAPPlus2"} :
          RegistersUpdateFp([DefaultInstruction EXCEPT !.FpUpdate = fu], EmptyOperands)
    \/ \E dst \in RegisterValues :
          RegistersUpdateFp([DefaultInstruction EXCEPT !.FpUpdate = "FpUpdateDst"],
                            [EmptyOperands EXCEPT !.Dst = dst])

\* UpdateAp on the instruction and operands, which become the state's
RegistersUpdateAp(ins, ops) ==
    LET r == UpdateAp(ins, ops, run_context) IN
    /\ Running
    /\ WithinOffsets(r.run_context)
    /\ run_context' = r.run_context
    /\ instruction' = ins
    /\ operands' = ops
    /\ ret' = [op |-> "UpdateAp", err |-> r.err, before |-> run_context]
    /\ UNCHANGED <<num_segments, mem, scopes, verified_addresses, builtin_base, trace, relocated_trace>>

\* UpdateAp for an instruction and operands; res is drawn for the selector Add.
RegistersUpdateApStep ==
    \/ \E au \in {"ApUpdateAdd1", "ApUpdateAdd2"} :
          RegistersUpdateAp([DefaultInstruction EXCEPT !.ApUpdate = au], EmptyOperands)
    \/ \E res \in RegisterValues \cup {Nil} :
          RegistersUpdateAp([DefaultInstruction EXCEPT !.ApUpdate = "ApUpdateAdd"],
                            [EmptyOperands EXCEPT !.Res = res])

RegistersNext == UpdatePcStep \/ UpdateFpStep \/ RegistersUpdateApStep

SpecRegisters == RegistersInit /\ [][RegistersNext]_vars

-----------------------------------------------------------------------------
(* The range check builtin (pkg/builtins) *)

\* The width of one part of a range-checked value (16 in the program), scaled with
\* the field.
INNER_RC_BOUND_SHIFT == 1

\* The parts of a range-checked value (8 in the program), scaled with the field:
\* the bound is N_PARTS * INNER_RC_BOUND_SHIFT bits, about half the field's width.
N_PARTS == 2

\* Felt.Bits: the bit length of the felt, 0 for zero
Bits(a) == CHOOSE n \in 0 .. FeltPrime : a < 2 ^ n /\ (n = 0 \/ a >= 2 ^ (n - 1))

\* OutsideBoundsError, wrapped by RangeCheckError
OutsideBoundsError == "Range check error: Value is out of bounds [0, 2^128]"

\* NotAFeltError, wrapped by RangeCheckError
NotAFeltError == "Range check error: Value is not a field element"

\* A validation rule that takes the bound as exclusive; C18 is checked against it.
RangeCheckValidationRuleBelowBound(m, address) ==
    LET res_val == MemoryGet(m, address) IN
    IF res_val.err # "nil"
    THEN [val |-> Nil, err |-> res_val.err]
    ELSE LET felt == GetInt(res_val.val) IN
         IF ~felt.ok
         THEN [val |-> Nil, err |-> NotAFeltError]
         ELSE IF Bits(felt.val) < N_PARTS * INNER_RC_BOUND_SHIFT
         THEN [val |-> <<address>>, err |-> "nil"]
         ELSE [val |-> Nil, err |-> OutsideBoundsError]

\* RangeCheckValidationRule: the validated addresses and the error
RangeCheckValidationRule(m, address) ==
    LET res_val == MemoryGet(m, address) IN
    IF res_val.err # "nil"
    THEN [val |-> Nil, err |-> res_val.err]
    ELSE LET felt == GetInt(res_val.val) IN
         IF ~felt.ok
         THEN [val |-> Nil, err |-> NotAFeltError]
         ELSE IF Bits(felt.val) <= N_PARTS * INNER_RC_BOUND_SHIFT
         THEN [val |-> <<address>>, err |-> "nil"]
         ELSE [val |-> Nil, err |-> OutsideBoundsError]

-----------------------------------------------------------------------------
(* The pedersen builtin (pkg/builtins) *)

PEDERSEN_CELLS_PER_INSTANCE == 3

\* what indexing a slice at or past its length does: the runtime panics
IndexOutOfRange == "panic: runtime error: index out of range"

\* Memory.GetFelt: the felt of a cell, an error when the cell is unknown or holds
\* an address
MemoryGetFelt(m, addr) ==
    LET cell == MemoryGet(m, addr) IN
    IF cell.err # "nil"
    THEN [val |-> 0, err |-> cell.err]
    ELSE IF ~GetInt(cell.val).ok
    THEN [val |-> 0, err |-> "ExpectedInteger"]
    ELSE [val |-> GetInt(cell.val).val, err |-> "nil"]

\* starknet_crypto.PedersenHash, scaled: a function of the ordered pair of felts
\* that tells (a, b) from (b, a)
PedersenHash(a, b) == FeltAdd(FeltMul(a, a), FeltAdd(b, b))

\* PedersenBuiltinRunner.DeduceMemoryCell: the deduced value, the error, and the
\* runner's verified_addresses.  The slice is indexed at the offset in the first
\* condition, before anything has grown it.
PedersenDeduceMemoryCell(verified, address, m) ==
    IF address.Offset % PEDERSEN_CELLS_PER_INSTANCE # 2
    THEN [val |-> Nil, err |-> "nil", verified_addresses |-> verified]
    ELSE IF address.Offset >= Len(verified)
    THEN [val |-> Nil, err |-> IndexOutOfRange, verified_addresses |-> verified]
    ELSE IF verified[address.Offset + 1]
    THEN [val |-> Nil, err |-> "nil", verified_addresses |-> verified]
    ELSE
    LET numA == MemoryGetFelt(m, NewRelocatable(address.SegmentIndex, address.Offset - 1))
        numB == MemoryGetFelt(m, NewRelocatable(address.SegmentIndex, address.Offset - 2))
        grown == IF Len(verified) <= address.Offset
                 THEN Append(verified, FALSE) ELSE verified
    IN  IF numA.err # "nil" \/ numB.err # "nil"
        THEN [val |-> Nil, err |-> "nil", verified_addresses |-> verified]
        ELSE IF address.Offset >= Len(grown)
        THEN [val |-> Nil, err |-> IndexOutOfRange, verified_addresses |-> grown]
        ELSE [val |-> NewMaybeRelocatableInt(PedersenHash(numA.val, numB.val)),
              err |-> "nil",
              verified_addresses |-> [grown EXCEPT ![address.Offset + 1] = FALSE]]

-----------------------------------------------------------------------------
(* The builtins specification: the range check rule and the pedersen deduction *)
(* applied to the cells of a builtin's segment                                 *)

\* the segment InitializeSegments gives the builtin on a manager that holds the
\* program and execution segments
BuiltinSegment == 2

\* InitializeSegments is called at most this many times more
MaxInitializeSegments == 2

\* the values a cell of the builtin's segment holds: every Felt, and Addresses
BuiltinValues ==
    {NewMaybeRelocatableInt(f) : f \in Felts}
        \cup {NewMaybeRelocatableRelocatable(NewRelocatable(0, 0)),
              NewMaybeRelocatableRelocatable(NewRelocatable(BuiltinSegment, 1))}

\* The runner after InitializeSegments, its base the builtin's segment, which holds
\* two cells, each unknown or one of the values.
RangeCheckInit ==
    /\ run_context = InitializedRunContext
    /\ num_segments = BuiltinSegment + 1
    /\ \E cells \in [0 .. 1 -> BuiltinValues \cup {Nil}] :
           mem = MemoryOf(BuiltinSegment, cells)
    /\ scopes = [n \in ScopeNames |-> Nil]
    /\ instruction = DefaultInstruction
    /\ operands = EmptyOperands
    /\ verified_addresses = << >>
    /\ builtin_base = NewRelocatable(BuiltinSegment, 0)
    /\ trace = << >>
    /\ relocated_trace = << >>
    /\ ret = [op |-> "init", err |-> "nil"]

\* the rule applied to an address of the runner's segment; an error ends the run
RangeCheckValidationRuleStep ==
    \E offset \in 0 .. 1 :
        LET address == NewRelocatable(builtin_base.SegmentIndex, offset)
            r       == RangeCheckValidationRule(mem, address)
        IN  /\ Running
            /\ ret' = [op |-> "RangeCheckValidationRule", address |-> address,
                       val |-> r.val, err |-> r.err, mem |-> mem]
            /\ UNCHANGED <<run_context, num_segments, mem, scopes, instruction,
                           operands, verified_addresses, builtin_base, trace, relocated_trace>>

\* RangeCheckBuiltinRunner.InitializeSegments: the runner takes a new segment of
\* the manager as its base.  A call on a runner that has a base gives it another;
\* the cells of the segment it had stay in memory.
RangeCheckInitializeSegmentsStep ==
    LET added == AddSegment(num_segments) IN
    /\ Running
    /\ num_segments < BuiltinSegment + 1 + MaxInitializeSegments
    /\ builtin_base' = added.base
    /\ num_segments' = added.num_segments
    /\ ret' = [op |-> "InitializeSegments", base |-> added.base, err |-> "nil"]
    /\ UNCHANGED <<run_context, mem, scopes, instruction, operands,
                   verified_addresses, trace, relocated_trace>>

RangeCheckNext == RangeCheckValidationRuleStep \/ RangeCheckInitializeSegmentsStep

SpecRangeCheck == RangeCheckInit /\ [][RangeCheckNext]_vars

\* the values a cell of the pedersen segment holds
PedersenValues ==
    {NewMaybeRelocatableInt(0), NewMaybeRelocatableInt(1), NewMaybeRelocatableInt(2),
     NewMaybeRelocatableRelocatable(NewRelocatable(0, 0))}

\* A runner as NewPedersenBuiltinRunner makes it, verified_addresses nil, after
\* InitializeSegments, and the three cells of the first instance of its segment,
\* each unknown or one of the values.
PedersenInit ==
    /\ run_context = InitializedRunContext
    /\ num_segments = BuiltinSegment + 1
    /\ \E cells \in [0 .. 2 -> PedersenValues \cup {Nil}] :
           mem = MemoryOf(BuiltinSegment, cells)
    /\ scopes = [n \in ScopeNames |-> Nil]
    /\ instruction = DefaultInstruction
    /\ operands = EmptyOperands
    /\ verified_addresses = << >>
    /\ builtin_base = NewRelocatable(BuiltinSegment, 0)
    /\ trace = << >>
    /\ relocated_trace = << >>
    /\ ret = [op |-> "init", err |-> "nil"]

\* DeduceMemoryCell for an address of the first two instances of the runner's
\* segment; a panic ends the run
DeduceMemoryCellStep ==
    \E offset \in 0 .. 2 * PEDERSEN_CELLS_PER_INSTANCE - 1 :
        LET address == NewRelocatable(builtin_base.SegmentIndex, offset)
            r       == PedersenDeduceMemoryCell(verified_addresses, address, mem)
        IN  /\ Running
            /\ verified_addresses' = r.verified_addresses
            /\ ret' = [op |-> "DeduceMemoryCell", address |-> address, val |-> r.val,
                       err |-> r.err, length |-> Len(verified_addresses)]
            /\ UNCHANGED <<run_context, num_segments, mem, scopes, instruction,
                           operands, builtin_base, trace, relocated_trace>>

\* PedersenBuiltinRunner.InitializeSegments: the runner takes a new segment of the
\* manager as its base.  A call on a runner that has a base gives it another; the
\* cells of the segment it had stay in memory.
PedersenInitializeSegmentsStep ==
    LET added == AddSegment(num_segments) IN
    /\ Running
    /\ num_segments < BuiltinSegment + 1 + MaxInitializeSegments
    /\ builtin_base' = added.base
    /\ num_segments' = added.num_segments
    /\ ret' = [op |-> "InitializeSegments", base |-> added.base, err |-> "nil"]
    /\ UNCHANGED <<run_context, mem, scopes, instruction, operands,
                   verified_addresses, trace, relocated_trace>>

PedersenNext == DeduceMemoryCellStep \/ PedersenInitializeSegmentsStep

SpecPedersen == PedersenInit /\ [][PedersenNext]_vars

-----------------------------------------------------------------------------
(* The keccak hint (pkg/hints) *)

\* The values of a byte (256 in the program), scaled with the field.
ByteModulus == 2

\* The bits of a byte (8 in the program), scaled with the field.
ByteBits == 1

\* The bytes of a word of the keccak input (16 in the program), scaled with the
\* field: a word holds WordBytes * ByteBits bits, about half the field's width.
WordBytes == 2

\* The bytes of a keccak digest (32 in the program): two words.
DigestBytes == 2 * WordBytes

\* Go's int(length) for a uint64 length: the same bits, read as a signed integer
ToInt(u) == IF u >= LimbModulus \div 2 THEN u - LimbModulus ELSE u

\* Felt.ToBeBytes()[32 - n:]: the low n bytes of the felt, most significant first
LowBytes(felt, n) == [i \in 1 .. n |-> (felt \div (ByteModulus ^ (n - i))) % ByteModulus]

\* the number a sequence of bytes spells, most significant first
RECURSIVE FromBeBytes(_)
FromBeBytes(bytes) ==
    IF bytes = << >> THEN 0
    ELSE FromBeBytes(SubSeq(bytes, 1, Len(bytes) - 1)) * ByteModulus + bytes[Len(bytes)]

\* FeltFromBeBytes: the felt of 32 big-endian bytes
FeltFromBeBytes(bytes) == FromBeBytes(bytes) % FeltPrime

\* keccak.New256 / Write / Sum, scaled: a digest of DigestBytes bytes that depends
\* on every byte of the input and on its length
RECURSIVE KeccakState(_)
KeccakState(input) ==
    IF input = << >> THEN 5
    ELSE (3 * KeccakState(SubSeq(input, 1, Len(input) - 1)) + input[Len(input)] + 1)
             % (ByteModulus ^ DigestBytes)

Keccak256(input) == LowBytes(KeccakState(input), DigestBytes)

\* IdsManager.GetFelt: the identifier's value, if it is a felt
IdsGetFelt(ids, name) ==
    IF GetInt(ids[name]).ok
    THEN [val |-> GetInt(ids[name]).val, err |-> "nil"]
    ELSE [val |-> 0, err |-> "IdentifierNotFelt"]

\* IdsManager.GetRelocatable: the identifier's value, if it is an address
IdsGetRelocatable(ids, name) ==
    IF GetRelocatable(ids[name]).ok
    THEN [val |-> GetRelocatable(ids[name]).val, err |-> "nil"]
    ELSE [val |-> ZeroRelocatable, err |-> "IdentifierNotRelocatable"]

\* the error of the size check
KeccakSizeExceeded(keccakMaxSize, length) ==
    "unsafe_keccak() can only be used with length<=" \o ToString(keccakMaxSize)
        \o ". Got: length=" \o ToString(length)

\* A size check that also refuses a length equal to the maximum; C22 is checked
\* against it.
KeccakSizeCheckBelowMax(sc, length) ==
    LET keccakMaxSizeAny == ScopesGet(sc, "__keccak_max_size") IN
    IF keccakMaxSizeAny.err = "nil" /\ keccakMaxSizeAny.val.type = "uint64"
          /\ length >= keccakMaxSizeAny.val.val
    THEN KeccakSizeExceeded(keccakMaxSizeAny.val.val, length)
    ELSE "nil"

\* the check of __keccak_max_size: it is made when the scopes hold the variable
\* as a uint64, and skipped otherwise
KeccakSizeCheck(sc, length) ==
    LET keccakMaxSizeAny == ScopesGet(sc, "__keccak_max_size") IN
    IF keccakMaxSizeAny.err = "nil" /\ keccakMaxSizeAny.val.type = "uint64"
          /\ length > keccakMaxSizeAny.val.val
    THEN KeccakSizeExceeded(keccakMaxSizeAny.val.val, length)
    ELSE "nil"

\* the loop of unsafeKeccak from the byte index on: the input collected, or the
\* error of the first word that cannot be taken.  The loop compares the indices
\* with int(length).
RECURSIVE KeccakInput(_, _, _, _, _, _)
KeccakInput(m, data, length, byteIdx, wordIdx, keccakInput) ==
    IF ~(byteIdx < ToInt(length))
    THEN [input |-> keccakInput, err |-> "nil"]
    ELSE LET wordAddr == AddUint(data, wordIdx).val
             word     == MemoryGetFelt(m, wordAddr)
             nBytes   == IF ToInt(length) - byteIdx > WordBytes
                         THEN WordBytes ELSE ToInt(length) - byteIdx
         IN  IF word.err # "nil"
             THEN [input |-> keccakInput, err |-> word.err]
             ELSE IF Bits(word.val) > ByteBits * nBytes
             THEN [input |-> keccakInput, err |-> "Invalid word size"]
             ELSE KeccakInput(m, data, length, byteIdx + WordBytes, wordIdx + 1,
                              keccakInput \o LowBytes(word.val, nBytes))

\* unsafeKeccak: the error, the state it leaves, and the bytes it has collected
unsafeKeccak(ids, st) ==
    LET lengthFelt == IdsGetFelt(ids, "length")
        length     == ToU64(lengthFelt.val)
        data       == IdsGetRelocatable(ids, "data")
        size       == KeccakSizeCheck(st.scopes, length.val)
        read       == KeccakInput(st.mem, data.val, length.val, 0, 0, << >>)
        resBytes   == Keccak256(read.input)
        high       == FeltFromBeBytes(SubSeq(resBytes, 1, WordBytes))
        low        == FeltFromBeBytes(SubSeq(resBytes, WordBytes + 1, DigestBytes))
        highIn     == IdsInsert(st, ids.high, NewMaybeRelocatableInt(high))
        st1        == [st EXCEPT !.mem = highIn.mem]
        lowIn      == IdsInsert(st1, ids.low, NewMaybeRelocatableInt(low))
    IN  IF lengthFelt.err # "nil"
        THEN [err |-> lengthFelt.err, state |-> st, input |-> << >>]
        ELSE IF length.err # "nil"
        THEN [err |-> length.err, state |-> st, input |-> << >>]
        ELSE IF data.err # "nil"
        THEN [err |-> data.err, state |-> st, input |-> << >>]
        ELSE IF size # "nil"
        THEN [err |-> size, state |-> st, input |-> << >>]
        ELSE IF read.err # "nil"
        THEN [err |-> read.err, state |-> st, input |-> read.input]
        ELSE IF highIn.err # "nil"
        THEN [err |-> highIn.err, state |-> st, input |-> read.input]
        ELSE [err |-> lowIn.err, state |-> [st1 EXCEPT !.mem = lowIn.mem],
              input |-> read.input]

-----------------------------------------------------------------------------
(* The keccak specification: unsafeKeccak called once on drawn identifiers, *)
(* memory and scopes                                                        *)

\* what the scopes hold under "__keccak_max_size": nothing, a uint64, or a value
\* of another type
KeccakMaxSizes ==
    {Nil, [type |-> "uint64", val |-> 1], [type |-> "uint64", val |-> 2],
     [type |-> "int", val |-> 1]}

\* the words a cell of the input holds: Felts that fit one byte, that fit a word
\* and that are too wide for a word, and an Address
KeccakWords ==
    {NewMaybeRelocatableInt(f) : f \in 0 .. ByteModulus ^ WordBytes}
        \cup {NewMaybeRelocatableRelocatable(NewRelocatable(1, 0))}

\* the identifiers of the hint: length and data as values, high and low as the
\* cells they resolve to
KeccakIds ==
    [length : {NewMaybeRelocatableInt(f) : f \in 0 .. LimbModulus}
                 \cup {NewMaybeRelocatableRelocatable(NewRelocatable(1, 0))},
     data   : {NewMaybeRelocatableRelocatable(NewRelocatable(1, 0)),
               NewMaybeRelocatableRelocatable(NewRelocatable(1, 1)),
               NewMaybeRelocatableInt(1)},
     high   : {NewRelocatable(1, 2)},
     low    : {NewRelocatable(1, 3)}]

\* The execution segment holds two cells of input, each unknown or a word, and
\* the cells of ids.high and ids.low, each free or already holding the Felt 0; the
\* scopes may hold a maximum size.
KeccakInit ==
    /\ run_context = InitializedRunContext
    /\ num_segments = 2
    /\ \E words \in [0 .. 1 -> KeccakWords \cup {Nil}],
          outputs \in [2 .. 3 -> {Nil, NewMaybeRelocatableInt(0)}] :
           mem = MemoryOf(1, words @@ outputs)
    /\ \E max \in KeccakMaxSizes : scopes = [n \in {"__keccak_max_size"} |-> max]
    /\ instruction = Nil
    /\ operands = Nil
    /\ verified_addresses = << >>
    /\ builtin_base = ZeroRelocatable
    /\ trace = << >>
    /\ relocated_trace = << >>
    /\ ret = [op |-> "init", err |-> "nil"]

\* one call of unsafeKeccak
unsafeKeccakStep ==
    \E ids \in KeccakIds :
        LET r == unsafeKeccak(ids, HintState(scopes, mem, num_segments)) IN
        /\ ret.op = "init"
        /\ mem' = r.state.mem
        /\ ret' = [op |-> "unsafeKeccak", ids |-> ids, err |-> r.err,
                   input |-> r.input, mem |-> mem]
        /\ UNCHANGED <<run_context, num_segments, scopes, instruction, operands,
                       verified_addresses, builtin_base, trace, relocated_trace>>

KeccakNext == unsafeKeccakStep

SpecKeccak == KeccakInit /\ [][KeccakNext]_vars

-----------------------------------------------------------------------------
(* Relocation of the trace (pkg/vm) *)

\* The longest relocated trace the relocation steps are followed to.
MaxRelocated == 4

\* Relocatable.RelocateAddress: the table entry of the address's segment plus the
\* offset, a sum of two unsigned integers, which wraps at their width.  The table
\* is a slice indexed by the segment index, so an index outside it is a run-time
\* panic.
RelocateAddress(r, relocationTable) ==
    IF r.SegmentIndex >= 0 /\ r.SegmentIndex < Len(relocationTable)
    THEN [val |-> (relocationTable[r.SegmentIndex + 1] + r.Offset) % LimbModulus,
          err |-> "nil"]
    ELSE [val |-> 0, err |-> IndexOutOfRange]

\* MaybeRelocatable.RelocateValue: a Felt is kept, an address becomes the Felt of
\* its relocated address.
RelocateValue(v, relocationTable) ==
    IF v.tag = "Int" THEN [val |-> v.felt, err |-> "nil"]
    ELSE IF v.tag = "Rel"
    THEN LET a == RelocateAddress(v.rel, relocationTable) IN
         [val |-> FeltFromUint64(a.val), err |-> a.err]
    ELSE [val |-> FeltFromUint64(0), err |-> "Unexpected type"]

\* The body of RelocateTrace's loop: the three registers of one entry relocated.
RelocateTraceEntry(entry, relocationTable) ==
    LET pc == RelocateAddress(entry.Pc, relocationTable)
        ap == RelocateAddress(entry.Ap, relocationTable)
        fp == RelocateAddress(entry.Fp, relocationTable)
    IN  IF pc.err # "nil" \/ ap.err # "nil" \/ fp.err # "nil"
        THEN [val |-> Nil, err |-> IndexOutOfRange]
        ELSE [val |-> [Pc |-> pc.val, Ap |-> ap.val, Fp |-> fp.val], err |-> "nil"]

\* RelocateTrace's loop over v.Trace: each relocated entry is appended to
\* v.RelocatedTrace as it is computed, so a panic keeps the entries before it.
RECURSIVE RelocateTraceLoop(_, _, _)
RelocateTraceLoop(entries, relocated, relocationTable) ==
    IF entries = << >>
    THEN [err |-> "nil", relocated_trace |-> relocated]
    ELSE LET e == RelocateTraceEntry(Head(entries), relocationTable) IN
         IF e.err # "nil"
         THEN [err |-> e.err, relocated_trace |-> relocated]
         ELSE RelocateTraceLoop(Tail(entries), Append(relocated, e.val),
                                relocationTable)

NoRelocationFound == "No relocation found for execution segment"

RelocateTraceOfOneEntryTable(tr, relocated, relocationTable) ==
    IF Len(relocationTable) < 1
    THEN [err |-> NoRelocationFound, relocated_trace |-> relocated]
    ELSE RelocateTraceLoop(tr, relocated, relocationTable)

\* VirtualMachine.RelocateTrace: fails on a table of fewer than two entries, and
\* otherwise appends the relocation of every trace entry to v.RelocatedTrace.
RelocateTrace(tr, relocated, relocationTable) ==
    IF Len(relocationTable) < 2
    THEN [err |-> NoRelocationFound, relocated_trace |-> relocated]
    ELSE RelocateTraceLoop(tr, relocated, relocationTable)

\* VirtualMachine.GetRelocatedTrace.
GetRelocatedTrace(relocated) ==
    IF Len(relocated) > 0
    THEN [val |-> relocated, err |-> "nil"]
    ELSE [val |-> Nil, err |-> "Trace not relocated"]

\* The effective size of a segment: the largest offset written plus one.
SegmentSize(m, i) ==
    LET offsets == {a.Offset : a \in {b \in DOMAIN m : b.SegmentIndex = i}} IN
    IF offsets = {} THEN 0
    ELSE (CHOOSE o \in offsets : \A q \in offsets : q <= o) + 1

\* Segments.ComputeEffectiveSizes: one size for each allocated segment.
ComputeEffectiveSizes(m, nsegs) == [i \in 1..nsegs |-> SegmentSize(m, i - 1)]

\* Segments.RelocateSegments: the table starts at 1 and each further entry adds
\* the size of the segment before it, in unsigned integers; it has one entry for
\* each segment.
RECURSIVE RelocationTableFrom(_, _)
RelocationTableFrom(first, sizes) ==
    IF sizes = << >> THEN << >>
    ELSE <<first>> \o RelocationTableFrom((first + Head(sizes)) % LimbModulus,
                                          Tail(sizes))

RelocateSegments(sizes) == [val |-> RelocationTableFrom(1, sizes), ok |-> TRUE]

\* Segments.RelocateMemory: every cell's address and value relocated.
RelocateMemory(m, relocationTable) ==
    LET failed == {a \in DOMAIN m :
                      \/ RelocateAddress(a, relocationTable).err # "nil"
                      \/ RelocateValue(m[a], relocationTable).err # "nil"}
    IN  IF failed # {}
        THEN [val |-> Nil, err |-> IndexOutOfRange]
        ELSE [val |-> {<<RelocateAddress(a, relocationTable).val,
                         RelocateValue(m[a], relocationTable).val>> : a \in DOMAIN m},
              err |-> "nil"]

\* VirtualMachine.Relocate: nothing to do for an empty trace; otherwise the table
\* is computed, the memory relocated and RelocateTrace called.  What RelocateTrace
\* returns is not looked at; only a panic in it ends the call.
Relocate(m, nsegs, tr, relocated) ==
    LET sizes == ComputeEffectiveSizes(m, nsegs)
        table == RelocateSegments(sizes)
        rm    == RelocateMemory(m, table.val)
        rt    == RelocateTrace(tr, relocated, table.val)
    IN  IF Len(tr) = 0
        THEN [err |-> "nil", relocated_trace |-> relocated, table |-> << >>]
        ELSE IF ~table.ok
        THEN [err |-> "ComputeEffectiveSizes called but RelocateSegments still returned error",
              relocated_trace |-> relocated, table |-> table.val]
        ELSE IF rm.err # "nil"
        THEN [err |-> rm.err, relocated_trace |-> relocated, table |-> table.val]
        ELSE [err |-> IF rt.err = IndexOutOfRange THEN rt.err ELSE "nil",
              relocated_trace |-> rt.relocated_trace, table |-> table.val]

\* A machine that has stopped: up to three segments, each written up to some
\* offset, the third cell of the first segment holding a Felt or the address of
\* the second segment, and a trace of up to two entries whose registers are in
\* allocated segments and whose pc is at a written cell.  Nothing has been
\* relocated yet.
RelocateSegmentCounts == 0..3

RelocateCells(nsegs, sizes, first) ==
    [a \in {NewRelocatable(s, o) : s \in 0..(nsegs - 1), o \in 0..MaxOffset} |->
        IF a.Offset >= sizes[a.SegmentIndex + 1] THEN Nil
        ELSE IF a = NewRelocatable(0, 2) THEN first
        ELSE NewMaybeRelocatableInt(0)]

RelocateMemories(nsegs) ==
    {LET cells == RelocateCells(nsegs, sizes, first) IN
     [a \in {b \in DOMAIN cells : cells[b] # Nil} |-> cells[a]] :
        sizes \in [1..nsegs -> 0..MaxOffset],
        first \in {NewMaybeRelocatableInt(1),
                   NewMaybeRelocatableRelocatable(NewRelocatable(1, 0))}}

TraceEntries(nsegs) ==
    {[Pc |-> NewRelocatable(0, pc), Ap |-> NewRelocatable(s, 1),
      Fp |-> NewRelocatable(s, 0)] : pc \in 0..1, s \in 0..(nsegs - 1)}

Traces(nsegs) ==
    {<< >>} \cup {<<e>> : e \in TraceEntries(nsegs)}
            \cup {<<e, f>> : e \in TraceEntries(nsegs), f \in TraceEntries(nsegs)}

RelocationTables == {<< >>, <<1>>, <<1, 1>>, <<1, 3>>, <<1, 7>>, <<1, 2, 4>>}

RelocateInit ==
    /\ run_context = ZeroRunContext
    /\ num_segments \in RelocateSegmentCounts
    /\ mem \in RelocateMemories(num_segments)
    /\ scopes = << >>
    /\ instruction = Nil
    /\ operands = Nil
    /\ verified_addresses = << >>
    /\ builtin_base = ZeroRelocatable
    /\ trace \in Traces(num_segments)
    /\ \A i \in 1..Len(trace) : trace[i].Pc \in DOMAIN mem
    /\ relocated_trace = << >>
    /\ ret = [op |-> "NewVirtualMachine", err |-> "nil", val |-> Nil,
              table |-> << >>, before |-> << >>]

NotPanicked == ret.err # IndexOutOfRange

RelocateTraceStep ==
    /\ NotPanicked
    /\ Len(relocated_trace) < MaxRelocated
    /\ \E relocationTable \in RelocationTables :
          LET r == RelocateTrace(trace, relocated_trace, relocationTable) IN
          /\ relocated_trace' = r.relocated_trace
          /\ ret' = [op |-> "RelocateTrace", err |-> r.err, val |-> Nil,
                     table |-> relocationTable, before |-> relocated_trace]
    /\ UNCHANGED <<run_context, num_segments, mem, scopes, instruction, operands,
                   verified_addresses, builtin_base, trace>>

RelocateStep ==
    /\ NotPanicked
    /\ Len(relocated_trace) < MaxRelocated
    /\ LET r == Relocate(mem, num_segments, trace, relocated_trace) IN
       /\ relocated_trace' = r.relocated_trace
       /\ ret' = [op |-> "Relocate", err |-> r.err, val |-> Nil,
                  table |-> r.table, before |-> relocated_trace]
    /\ UNCHANGED <<run_context, num_segments, mem, scopes, instruction, operands,
                   verified_addresses, builtin_base, trace>>

GetRelocatedTraceStep ==
    /\ NotPanicked
    /\ LET r == GetRelocatedTrace(relocated_trace) IN
       ret' = [op |-> "GetRelocatedTrace", err |-> r.err, val |-> r.val,
               table |-> << >>, before |-> relocated_trace]
    /\ UNCHANGED <<run_context, num_segments, mem, scopes, instruction, operands,
                   verified_addresses, builtin_base, trace, relocated_trace>>

RelocateTraceNext == RelocateTraceStep

SpecRelocateTrace == RelocateInit /\ [][RelocateTraceNext]_vars

RelocateNext ==
    \/ RelocateStep
    \/ GetRelocatedTraceStep

SpecRelocate == RelocateInit /\ [][RelocateNext]_vars

-----------------------------------------------------------------------------
(* The update of all three registers (pkg/vm) *)

UpdateRegistersUpdatingPcFirst(ins, ops, rc) ==
    LET pc == UpdatePc(ins, ops, rc) IN
    IF pc.err # "nil" THEN pc ELSE
    LET fp == UpdateFp(ins, ops, pc.run_context) IN
    IF fp.err # "nil" THEN fp ELSE
    UpdateAp(ins, ops, fp.run_context)

\* VirtualMachine.UpdateRegisters: UpdateFp, then UpdateAp, then UpdatePc, each on
\* the registers the one before has left, returning at the first error.
UpdateRegisters(ins, ops, rc) ==
    LET fp == UpdateFp(ins, ops, rc) IN
    IF fp.err # "nil" THEN fp ELSE
    LET ap == UpdateAp(ins, ops, fp.run_context) IN
    IF ap.err # "nil" THEN ap ELSE
    UpdatePc(ins, ops, ap.run_context)

\* The instructions whose three update selectors take every value, with an
\* immediate or without, and the operands the updates read: res, dst and op1.
UpdateInstructions ==
    {[DefaultInstruction EXCEPT !.PcUpdate = pu, !.ApUpdate = au, !.FpUpdate = fu,
                                !.Op1Addr = src] :
        pu \in {"PcUpdateRegular", "PcUpdateJump", "PcUpdateJumpRel", "PcUpdateJnz"},
        au \in {"ApUpdateRegular", "ApUpdateAdd", "ApUpdateAdd1", "ApUpdateAdd2"},
        fu \in {"FpUpdateRegular", "FpUpdateAPPlus2", "FpUpdateDst"},
        src \in {"Op1SrcImm", "Op1SrcAP"}}

UpdateOperands ==
    {[EmptyOperands EXCEPT !.Res = res, !.Dst = dst, !.Op1 = op1] :
        res \in RegisterValues \cup {Nil}, dst \in RegisterValues,
        op1 \in RegisterValues}

\* One call of UpdateRegisters in a step of the machine, on the instruction and
\* operands of that step, which become the state's.
UpdateRegistersStep ==
    /\ ret.op = "init"
    /\ \E ins \in UpdateInstructions, ops \in UpdateOperands :
          LET r == UpdateRegisters(ins, ops, run_context) IN
          /\ run_context' = r.run_context
          /\ instruction' = ins
          /\ operands' = ops
          /\ ret' = [op |-> "UpdateRegisters", err |-> r.err, before |-> run_context]
    /\ UNCHANGED <<num_segments, mem, scopes, verified_addresses, builtin_base, trace,
                   relocated_trace>>

UpdateRegistersNext == UpdateRegistersStep

SpecUpdateRegisters == RegistersInit /\ [][UpdateRegistersNext]_vars

-----------------------------------------------------------------------------
(* Properties of the dict hints *)

\* whether a value of the scopes is a dict manager
IsDictManager(v) == "type" \in DOMAIN v /\ v.type = "DictManager"

\* whether the record r of a call is ExecuteHint on a compiled hint of the code
IsHintCall(r, code) ==
    /\ r.op = "ExecuteHint"
    /\ r.hintData.type = "HintData"
    /\ r.hintData.Code = code

\* whether r is a call of DICT_READ, DICT_WRITE or DICT_UPDATE
IsDictAccess(r) ==
    \E code \in {"DICT_READ", "DICT_WRITE", "DICT_UPDATE"} : IsHintCall(r, code)

\* the cell of memory m at addr, Nil when it is unknown
CellAt(m, addr) == IF addr \in DOMAIN m THEN m[addr] ELSE Nil

\* the value the tracker holds for key: the stored one, else the default value
StoredValue(tracker, key) ==
    IF key \in DOMAIN tracker.data.dict
    THEN tracker.data.dict[key]
    ELSE tracker.data.defaultValue

\* whether the last call was a dict access that got its tracker: there was a
\* manager, and the pointer was the current pointer of its segment's tracker
AccessGotTracker ==
    /\ IsDictAccess(ret)
    /\ IsDictManager(ret.before)
    /\ ret.hintData.Ids.dict_ptr.SegmentIndex \in DOMAIN ret.before.trackers
    /\ ret.before.trackers[ret.hintData.Ids.dict_ptr.SegmentIndex].currentPtr
          = ret.hintData.Ids.dict_ptr

\* C1: for a dict_ptr whose segment has a tracker, GetTracker, and with it every
\* DICT_READ, DICT_WRITE and DICT_UPDATE, succeeds only if dict_ptr is that
\* tracker's current pointer; another pointer fails with "Wrong dict pointer
\* supplied" (reporting the pointer as got and the current pointer as expected),
\* and a segment without a tracker fails with "No dict tracker found for segment".
C1_GetTrackerChecksPointer ==
    /\ (IsDictAccess(ret) /\ IsDictManager(ret.before)) =>
          LET dict_ptr == ret.hintData.Ids.dict_ptr
              trackers == ret.before.trackers
          IN  IF dict_ptr.SegmentIndex \in DOMAIN trackers
              THEN LET current == trackers[dict_ptr.SegmentIndex].currentPtr IN
                   /\ ret.err = "nil" => dict_ptr = current
                   /\ dict_ptr # current =>
                         /\ ret.err = "Dict Error: Wrong dict pointer supplied"
                         /\ ret.got = dict_ptr
                         /\ ret.expected = current
              ELSE ret.err = "Dict Error: No dict tracker found for segment"
    /\ IsDictManager(scopes["__dict_manager"]) =>
          \A dict_ptr \in DictPtrs(MaxDicts) :
              LET d   == scopes["__dict_manager"]
                  got == GetTracker(d, dict_ptr)
              IN  IF dict_ptr.SegmentIndex \in DOMAIN d.trackers
                  THEN IF dict_ptr = d.trackers[dict_ptr.SegmentIndex].currentPtr
                       THEN got.err = "nil"
                       ELSE got.err = "Dict Error: Wrong dict pointer supplied"
                  ELSE got.err = "Dict Error: No dict tracker found for segment"

\* a DICT_WRITE on a registered dictionary was refused for its pointer
C1_Witness ==
    /\ IsHintCall(ret, "DICT_WRITE")
    /\ IsDictManager(ret.before)
    /\ ret.hintData.Ids.dict_ptr.SegmentIndex \in DOMAIN ret.before.trackers
    /\ ret.err = "Dict Error: Wrong dict pointer supplied"
    /\ ret.got = NewRelocatable(2, DICT_ACCESS_SIZE)
    /\ ret.expected = NewRelocatable(2, 0)

\* C2: after a successful DICT_READ, DICT_WRITE or DICT_UPDATE with dict_ptr = p,
\* the tracker the manager holds for p's segment has its current pointer at p + 3.
C2_TrackerAdvancesBy3 ==
    (IsDictAccess(ret) /\ ret.err = "nil") =>
        LET p == ret.hintData.Ids.dict_ptr IN
        scopes["__dict_manager"].trackers[p.SegmentIndex].currentPtr
            = NewRelocatable(p.SegmentIndex, p.Offset + DICT_ACCESS_SIZE)

\* a second access was accepted with the pointer of the first, the base
C2_Witness ==
    /\ AccessGotTracker
    /\ ret.err = "nil"
    /\ ret.hintData.Ids.dict_ptr.Offset = 0
    /\ DOMAIN ret.before.trackers[ret.hintData.Ids.dict_ptr.SegmentIndex].data.dict # {}

\* C3: a successful DICT_READ of k that directly follows a successful DICT_WRITE of
\* (k, v) on the same dictionary leaves v in ids.value; and the first DICT_WRITE to
\* a key the default dictionary holds no value for leaves the default value in
\* ids.prev_value.
C3_ReadAfterWrite ==
    /\ [][(/\ IsHintCall(ret, "DICT_WRITE") /\ ret.err = "nil"
           /\ IsHintCall(ret', "DICT_READ") /\ ret'.err = "nil"
           /\ ret'.hintData.Ids.dict_ptr.SegmentIndex
                 = ret.hintData.Ids.dict_ptr.SegmentIndex
           /\ ret'.hintData.Ids.key = ret.hintData.Ids.key)
          => CellAt(mem', ret'.hintData.Ids.value) = ret.hintData.Ids.new_value]_vars
    /\ []((/\ IsHintCall(ret, "DICT_WRITE") /\ ret.err = "nil"
           /\ AccessGotTracker
           /\ ret.hintData.Ids.key \notin
                 DOMAIN ret.before.trackers[
                            ret.hintData.Ids.dict_ptr.SegmentIndex].data.dict)
          => CellAt(mem, ret.hintData.Ids.prev_value)
                = ret.before.trackers[
                      ret.hintData.Ids.dict_ptr.SegmentIndex].data.defaultValue)

\* a DICT_READ returned no error and ids.value is not the value stored for its key
C3_Witness ==
    /\ IsHintCall(ret, "DICT_READ")
    /\ ret.err = "nil"
    /\ CellAt(mem, ret.hintData.Ids.value)
          # StoredValue(scopes["__dict_manager"].trackers[
                            ret.hintData.Ids.dict_ptr.SegmentIndex],
                        ret.hintData.Ids.key)

\* C4: DICT_UPDATE succeeds only if ids.prev_value is the value stored for ids.key,
\* and then ids.new_value is stored for the key; otherwise it fails with "Wrong
\* previous value in dict", reporting the stored value as got and ids.prev_value as
\* expected, the stored value is kept and the tracker's pointer is not advanced.
\* (The value stored for a key is the one written, else the dictionary's default
\* value; for a key that has neither the hint fails with the error of the lookup
\* and changes nothing.)
C4_DictUpdateChecksPrevValue ==
    (IsHintCall(ret, "DICT_UPDATE") /\ AccessGotTracker) =>
        LET ids    == ret.hintData.Ids
            seg    == ids.dict_ptr.SegmentIndex
            stored == StoredValue(ret.before.trackers[seg], ids.key)
            after  == scopes["__dict_manager"].trackers[seg]
        IN  IF stored = Nil
            THEN /\ ret.err = "DictKeyNotFound"
                 /\ StoredValue(after, ids.key) = Nil
                 /\ after.currentPtr = ret.before.trackers[seg].currentPtr
            ELSE IF ids.prev_value = stored
            THEN /\ ret.err = "nil"
                 /\ StoredValue(after, ids.key) = ids.new_value
            ELSE /\ ret.err = "Wrong previous value in dict."
                 /\ ret.got = stored
                 /\ ret.expected = ids.prev_value
                 /\ StoredValue(after, ids.key) = stored
                 /\ after.currentPtr = ret.before.trackers[seg].currentPtr

\* a DICT_UPDATE of a key written before was refused: the key holds 1, the hint
\* was given 0 as its previous value
C4_Witness ==
    /\ IsHintCall(ret, "DICT_UPDATE")
    /\ AccessGotTracker
    /\ ret.err = "Wrong previous value in dict."
    /\ ret.got = NewMaybeRelocatableInt(1)
    /\ ret.expected = NewMaybeRelocatableInt(0)
    /\ ret.before.trackers[ret.hintData.Ids.dict_ptr.SegmentIndex].data.defaultValue
          = NewMaybeRelocatableInt(0)

\* C5: after any sequence of DEFAULT_DICT_NEW hints the scopes hold one dict
\* manager, which has a tracker for every segment the hints allocated; each call
\* has allocated a new segment, registered for it a tracker with the hint's default
\* value, no entries and its pointer at the segment's base, and kept the trackers
\* of the earlier calls; and a call that returns no error has written the base at
\* ap (the only error of a call is that of this write).
C5_DefaultDictNew ==
    /\ num_segments > 2 =>
          /\ IsDictManager(scopes["__dict_manager"])
          /\ DOMAIN scopes["__dict_manager"].trackers = 2 .. (num_segments - 1)
    /\ IsHintCall(ret, "DEFAULT_DICT_NEW") =>
          LET d    == scopes["__dict_manager"]
              base == NewRelocatable(num_segments - 1, 0)
          IN  /\ IsDictManager(d)
              /\ base.SegmentIndex \in DOMAIN d.trackers
              /\ d.trackers[base.SegmentIndex] =
                    [data |-> [dict |-> [k \in {} |-> Nil],
                               defaultValue |-> ret.hintData.Ids.default_value],
                     currentPtr |-> base]
              /\ IsDictManager(ret.before) =>
                    /\ base.SegmentIndex \notin DOMAIN ret.before.trackers
                    /\ \A seg \in DOMAIN ret.before.trackers :
                          /\ seg \in DOMAIN d.trackers
                          /\ d.trackers[seg] = ret.before.trackers[seg]
              /\ ret.err \in {"nil", "InconsistentMemory"}
              /\ ret.err = "nil" =>
                    CellAt(mem, run_context.Ap) = NewMaybeRelocatableRelocatable(base)

\* a second DEFAULT_DICT_NEW returned no error: the manager of the first call holds
\* both trackers, and both bases are in memory
C5_Witness ==
    /\ IsHintCall(ret, "DEFAULT_DICT_NEW")
    /\ ret.err = "nil"
    /\ IsDictManager(ret.before)
    /\ DOMAIN ret.before.trackers = {2}
    /\ DOMAIN scopes["__dict_manager"].trackers = {2, 3}
    /\ run_context.Ap # NewRelocatable(1, 0)
    /\ CellAt(mem, NewRelocatable(1, 0))
          = NewMaybeRelocatableRelocatable(NewRelocatable(2, 0))

-----------------------------------------------------------------------------
(* Properties of the hint processor *)

\* the codes of the hints the specification names
SpecNamedCodes ==
    {"DEFAULT_DICT_NEW", "DICT_READ", "DICT_WRITE", "DICT_UPDATE", "UNSAFE_KECCAK",
     "VM_ENTER_SCOPE", "VM_EXIT_SCOPE", "POW", "SQRT", "IS_QUAD_RESIDUE", "ASSERT_NN",
     "IS_POSITIVE", "ASSERT_NOT_ZERO", "ASSERT_NOT_EQUAL", "UINT256_ADD", "EC_NEGATE",
     "EC_NEGATE_EMBEDDED_SECP"}

\* C6: ExecuteHint on a hint whose code is that of a hint the specification names
\* calls an implementation and does not reject the hint as unknown.
C6_NamedHintsDispatched ==
    (ret.op = "ExecuteHint" /\ ret.hintData.type = "HintData"
        /\ ret.hintData.Code \in SpecNamedCodes) =>
            /\ ret.impl # "none"
            /\ ret.err # "Unknown Hint"

\* ExecuteHint rejected the Uint256 add hint as unknown
C6_Witness ==
    /\ IsHintCall(ret, "UINT256_ADD")
    /\ ret.impl = "none"
    /\ ret.err = "Unknown Hint"

\* C7: ExecuteHint on a hint whose code is none of the dispatch table returns
\* "Unknown Hint", and on hint data that is no HintData returns "Wrong Hint Data";
\* in both cases it calls no implementation and leaves the memory, the segments,
\* the registers and the execution scopes as they were.
C7_RejectedHintChangesNothing ==
    [][ret'.op = "ExecuteHint" =>
          /\ ret'.hintData.type # "HintData" =>
                /\ ret'.err = "Wrong Hint Data"
                /\ ret'.impl = "none"
                /\ UNCHANGED <<mem, num_segments, run_context, scopes, trace, relocated_trace>>
          /\ (ret'.hintData.type = "HintData"
                 /\ ret'.hintData.Code \notin DispatchedCodes) =>
                /\ ret'.err = "Unknown Hint"
                /\ ret'.impl = "none"
                /\ UNCHANGED <<mem, num_segments, run_context, scopes, trace, relocated_trace>>]_vars

\* a text that is no hint's code was rejected on a VM that holds a dictionary with
\* an entry and its base in memory
C7_Witness ==
    /\ IsHintCall(ret, "print(ids.x)")
    /\ ret.err = "Unknown Hint"
    /\ ret.impl = "none"
    /\ IsDictManager(scopes["__dict_manager"])
    /\ 2 \in DOMAIN scopes["__dict_manager"].trackers
    /\ DOMAIN scopes["__dict_manager"].trackers[2].data.dict # {}
    /\ CellAt(mem, InitializedRunContext.Ap) # Nil

-----------------------------------------------------------------------------
(* Properties of the operands and the opcode assertions *)

\* C8: for an AssertEq instruction OpcodeAssertions succeeds only if res is
\* defined and equal to dst: it fails with UnconstrainedResAssertEq when res is
\* undefined and with DiffAssertValues when res differs from dst.
C8_AssertEqResEqualsDst ==
    (ret.op = "OpcodeAssertions" /\ instruction.Opcode = "AssertEq") =>
        /\ operands.Res = Nil => ret.err = "UnconstrainedResAssertEq"
        /\ (operands.Res # Nil /\ operands.Res # operands.Dst) =>
              ret.err = "DiffAssertValues"
        /\ ret.err = "nil" => (operands.Res # Nil /\ operands.Res = operands.Dst)

\* an AssertEq passed the assertions with a res that is no value (the sum of an
\* address and a felt that does not fit the offset) and dst the address 0:0
C8_Witness ==
    /\ ret.op = "OpcodeAssertions"
    /\ instruction.Opcode = "AssertEq"
    /\ instruction.ResLogic = "ResAdd"
    /\ ret.err = "nil"
    /\ operands.Res = Empty
    /\ operands.Dst = NewMaybeRelocatableRelocatable(NewRelocatable(0, 0))

\* C9: for a Call instruction OpcodeAssertions succeeds only if op0 is the address
\* pc + instruction size and dst is the address held in fp: it fails with
\* CantWriteReturnPc when op0 differs, and with CantWriteReturnFp when dst is
\* anything but the address fp.
C9_CallReturnPcAndFp ==
    (ret.op = "OpcodeAssertions" /\ instruction.Opcode = "Call") =>
        LET returnPC == NewMaybeRelocatableRelocatable(
                            NewRelocatable(run_context.Pc.SegmentIndex,
                                           run_context.Pc.Offset + Size(instruction)))
            returnFP == NewMaybeRelocatableRelocatable(run_context.Fp)
        IN  /\ ret.err = "nil" =>
                  (operands.Op0 = returnPC /\ operands.Dst = returnFP)
            /\ operands.Op0 # returnPC => ret.err = "CantWriteReturnPc"
            /\ (operands.Op0 = returnPC /\ operands.Dst # returnFP) =>
                  ret.err = "CantWriteReturnFp"

\* a Call passed the assertions with a felt as dst, fp being 0:0
C9_Witness ==
    /\ ret.op = "OpcodeAssertions"
    /\ instruction.Opcode = "Call"
    /\ ret.err = "nil"
    /\ operands.Dst.tag = "Int"
    /\ run_context.Fp = NewRelocatable(0, 0)

\* C10: the operands ComputeOperands returns without an error agree with memory:
\* the cells of dst, op0 and op1 are known (read, or deduced and written back) and
\* hold the operands returned.
C10_OperandsAgreeWithMemory ==
    (ret.op = "ComputeOperands" /\ ret.err = "nil") =>
        /\ CellAt(mem, ComputeDstAddr(run_context, instruction).val) = operands.Dst
        /\ CellAt(mem, ComputeOp0Addr(run_context, instruction).val) = operands.Op0
        /\ CellAt(mem, ComputeOp1Addr(run_context, instruction, operands.Op0).val)
              = operands.Op1

\* ComputeOperands returned no error and empty operands for an AssertEq whose dst
\* cell is unknown while op0 and op1 are known, and left the cell unknown
C10_Witness ==
    /\ ret.op = "ComputeOperands"
    /\ ret.err = "nil"
    /\ instruction.Opcode = "AssertEq"
    /\ instruction.ResLogic = "ResAdd"
    /\ operands = EmptyOperands
    /\ CellAt(mem, ComputeDstAddr(run_context, instruction).val) = Nil
    /\ CellAt(mem, ComputeOp0Addr(run_context, instruction).val) # Nil
    /\ CellAt(mem, AddOffset(run_context.Ap, instruction.Off2).val) # Nil
    /\ instruction.Op1Addr = "Op1SrcAP"

-----------------------------------------------------------------------------
(* Properties of the operand deduction *)

IsFelt(v) == v.tag = "Int"

IsAddress(v) == v.tag = "Rel"

\* C11: DeduceOp0 leaves the registers as they were and, for Call, returns the
\* address pc + instruction size in pc's segment; for AssertEq with res-logic Add
\* and dst and op1 both known it returns res = dst and the op0 with op0 + op1 = dst
\* when the subtraction is defined, and the subtraction's error otherwise; for
\* AssertEq with res-logic Mul, dst and op1 both Felts and op1 not zero, it returns
\* res = dst and the op0 with op0 * op1 = dst; in every other case it returns no
\* deduction and no error.
C11_DeduceOp0 ==
    ret.op = "DeduceOp0" =>
        LET dst == operands.Dst
            op1 == operands.Op1
            pc  == ret.before.Pc
            add == instruction.Opcode = "AssertEq" /\ instruction.ResLogic = "ResAdd"
                       /\ dst # Nil /\ op1 # Nil
            mul == instruction.Opcode = "AssertEq" /\ instruction.ResLogic = "ResMul"
                       /\ IsFelt(dst) /\ IsFelt(op1) /\ op1.felt # 0
        IN  /\ run_context = ret.before
            /\ instruction.Opcode = "Call" =>
                  /\ ret.err = "nil"
                  /\ IsAddress(ret.val)
                  /\ ret.val.rel.SegmentIndex = pc.SegmentIndex
                  /\ ret.val.rel.Offset = pc.Offset + Size(instruction)
            /\ add =>
                  IF Sub(dst, op1).err = "nil"
                  THEN /\ ret.err = "nil"
                       /\ ret.res = dst
                       /\ ret.val # Nil
                       /\ AddMaybeRelocatable(ret.val, op1) = [val |-> dst, err |-> "nil"]
                  ELSE /\ ret.err = Sub(dst, op1).err
                       /\ ret.val = Nil
                       /\ ret.res = Nil
            /\ mul =>
                  /\ ret.err = "nil"
                  /\ ret.res = dst
                  /\ IsFelt(ret.val)
                  /\ (ret.val.felt * op1.felt) % FeltPrime = dst.felt
            /\ ~(instruction.Opcode = "Call" \/ add \/ mul) =>
                  /\ ret.err = "nil"
                  /\ ret.val = Nil
                  /\ ret.res = Nil

\* DeduceOp0 has deduced the return address of a call with an immediate from a
\* pc that is not at the start of its segment
C11_Witness ==
    /\ ret.op = "DeduceOp0"
    /\ instruction.Opcode = "Call"
    /\ instruction.Op1Addr = "Op1SrcImm"
    /\ ret.before.Pc = NewRelocatable(0, 3)
    /\ run_context.Pc = NewRelocatable(0, 3)
    /\ ret.val = NewMaybeRelocatableRelocatable(NewRelocatable(0, 5))

\* C12: DeduceOp1 returns, for AssertEq with res-logic Op1, op1 = dst; with
\* res-logic Add and dst and op0 both known, res = dst and the op1 with
\* op0 + op1 = dst; with res-logic Mul, dst and op0 both Felts and op0 not zero,
\* the op1 with op0 * op1 = dst; and whenever dst or op0 is missing, or the opcode
\* is not AssertEq, it returns without an error, and without a deduction unless
\* the res-logic is Op1 and dst is known.
C12_DeduceOp1 ==
    ret.op = "DeduceOp1" =>
        LET dst == operands.Dst
            op0 == operands.Op0
            assert_eq == instruction.Opcode = "AssertEq"
        IN  /\ assert_eq /\ instruction.ResLogic = "ResOp1" =>
                  ret.err = "nil" /\ ret.val = dst
            /\ assert_eq /\ instruction.ResLogic = "ResAdd" /\ dst # Nil /\ op0 # Nil
                  /\ Sub(dst, op0).err = "nil" =>
                  /\ ret.err = "nil"
                  /\ ret.res = dst
                  /\ ret.val # Nil
                  /\ AddMaybeRelocatable(op0, ret.val) = [val |-> dst, err |-> "nil"]
            /\ assert_eq /\ instruction.ResLogic = "ResMul" /\ IsFelt(dst) /\ IsFelt(op0)
                  /\ op0.felt # 0 =>
                  /\ ret.err = "nil"
                  /\ IsFelt(ret.val)
                  /\ (op0.felt * ret.val.felt) % FeltPrime = dst.felt
            /\ dst = Nil \/ op0 = Nil \/ ~assert_eq =>
                  /\ ret.err = "nil"
                  /\ ~(assert_eq /\ instruction.ResLogic = "ResOp1" /\ dst # Nil) =>
                        ret.val = Nil

\* DeduceOp1 has been called for an AssertEq with res-logic Mul whose dst is
\* unknown, and has dereferenced the nil pointer
C12_Witness ==
    /\ ret.op = "DeduceOp1"
    /\ instruction.Opcode = "AssertEq"
    /\ instruction.ResLogic = "ResMul"
    /\ operands.Dst = Nil
    /\ IsFelt(operands.Op0)
    /\ ret.err = NilDereference

\* C13: ComputeRes returns op1 for res-logic Op1; for Add the sum op0 + op1 (a
\* Felt for two Felts, the Address whose offset is the field sum of the offset and
\* the Felt for an Address and a Felt) or an error, and always an error for two
\* Addresses; for Mul the field product of
\* two Felts, and the error ComputeResRelocatableMul when either operand is an
\* Address; for Unconstrained no res and no error.
C13_ComputeRes ==
    ret.op = "ComputeRes" =>
        LET op0 == operands.Op0
            op1 == operands.Op1
        IN  CASE instruction.ResLogic = "ResOp1" ->
                    ret.err = "nil" /\ ret.val = op1
              [] instruction.ResLogic = "ResAdd" ->
                    \/ ret.err # "nil" /\ ret.val = Nil
                    \/ /\ ret.err = "nil"
                       /\ IsFelt(op0) /\ IsFelt(op1)
                       /\ IsFelt(ret.val)
                       /\ ret.val.felt = (op0.felt + op1.felt) % FeltPrime
                    \/ /\ ret.err = "nil"
                       /\ \E a \in {op0, op1}, f \in {op0, op1} :
                             /\ IsAddress(a) /\ IsFelt(f)
                             /\ IsAddress(ret.val)
                             /\ ret.val.rel.SegmentIndex = a.rel.SegmentIndex
                             /\ ret.val.rel.Offset = (a.rel.Offset + f.felt) % FeltPrime
              [] instruction.ResLogic = "ResMul" ->
                    IF IsFelt(op0) /\ IsFelt(op1)
                    THEN /\ ret.err = "nil"
                         /\ IsFelt(ret.val)
                         /\ ret.val.felt = (op0.felt * op1.felt) % FeltPrime
                    ELSE ret.err = "ComputeResRelocatableMul" /\ ret.val = Nil
              [] OTHER -> ret.err = "nil" /\ ret.val = Nil

\* ComputeRes has added a Felt that does not fit an unsigned integer to an Address
C13_Witness ==
    /\ ret.op = "ComputeRes"
    /\ instruction.ResLogic = "ResAdd"
    /\ operands.Op0 = NewMaybeRelocatableRelocatable(NewRelocatable(0, 0))
    /\ operands.Op1 = NewMaybeRelocatableInt(FeltPrime - 1)
    /\ ret.err = "nil"
    /\ ret.val = Empty

-----------------------------------------------------------------------------
(* Properties of the additions *)

\* the outcome of an addition: the error, and the value when there is none
AddOutcome(val, err) == IF err = "nil" THEN <<"ok", val>> ELSE <<"error">>

\* C16: AddMaybeRelocatable adds two Felts in the field; adds an Address and a
\* Felt, in either order, to the Address of the same segment moved by the Felt;
\* fails for two Addresses; fails with an error, in either order, when the new
\* offset does not fit an unsigned integer; so that a + b and b + a always have the
\* same outcome.
C16_AddMaybeRelocatable ==
    ret.op = "AddSwapped" =>
        LET a == operands.Op0
            b == operands.Op1
        IN  /\ AddOutcome(ret.val, ret.err) = AddOutcome(ret.swapped_val, ret.swapped_err)
            /\ IsFelt(a) /\ IsFelt(b) =>
                  /\ ret.err = "nil"
                  /\ ret.val = NewMaybeRelocatableInt((a.felt + b.felt) % FeltPrime)
            /\ IsAddress(a) /\ IsAddress(b) => ret.err # "nil"
            /\ \A r \in {a, b}, f \in {a, b} :
                  IsAddress(r) /\ IsFelt(f) =>
                      LET offset == (r.rel.Offset + f.felt) % FeltPrime IN
                      IF offset < LimbModulus
                      THEN /\ ret.err = "nil"
                           /\ ret.val = NewMaybeRelocatableRelocatable(
                                            NewRelocatable(r.rel.SegmentIndex, offset))
                      ELSE ret.err # "nil"

\* an Address and a Felt whose sum does not fit have been added in both orders:
\* Address + Felt gave the empty value and no error, Felt + Address gave the error
C16_Witness ==
    /\ ret.op = "AddSwapped"
    /\ operands.Op0 = NewMaybeRelocatableRelocatable(NewRelocatable(1, 3))
    /\ operands.Op1 = NewMaybeRelocatableInt(6)
    /\ ret.err = "nil"
    /\ ret.val = Empty
    /\ ret.swapped_err = "Cannot convert felt to u64"

\* C17 as claimed: Relocatable.AddFelt succeeds only if the Felt fits an unsigned
\* integer, a Felt that does not fit makes it fail, and on success the result has
\* the same segment index and the old offset plus the Felt as its offset.
C17_AddFeltOnlyOfFittingFelt ==
    ret.op = "AddFelt" =>
        LET r    == operands.Op0.rel
            felt == operands.Op1.felt
        IN  IF felt < LimbModulus
            THEN ret.err = "nil" =>
                    /\ ret.val.SegmentIndex = r.SegmentIndex
                    /\ ret.val.Offset = r.Offset + felt
            ELSE ret.err # "nil"

\* C17: Relocatable.AddFelt succeeds exactly when the field sum of the old offset
\* and the Felt fits an unsigned integer; on success the result has the same
\* segment index and that sum as its offset; otherwise it fails and returns the
\* zero address.
C17_AddFeltOfFittingSum ==
    ret.op = "AddFelt" =>
        LET r    == operands.Op0.rel
            felt == operands.Op1.felt
            sum  == (r.Offset + felt) % FeltPrime
        IN  IF sum < LimbModulus
            THEN /\ ret.err = "nil"
                 /\ ret.val.SegmentIndex = r.SegmentIndex
                 /\ ret.val.Offset = sum
            ELSE /\ ret.err # "nil"
                 /\ ret.val = ZeroRelocatable

\* AddFelt has added the felt p - 1, which fits no unsigned integer, to an address
\* of offset 1, and has returned the address of offset 0
C17_Witness ==
    /\ ret.op = "AddFelt"
    /\ operands.Op0 = NewMaybeRelocatableRelocatable(NewRelocatable(1, 1))
    /\ operands.Op1 = NewMaybeRelocatableInt(FeltPrime - 1)
    /\ ret.err = "nil"
    /\ ret.val = NewRelocatable(1, 0)

-----------------------------------------------------------------------------
(* Properties of the register updates *)

\* the address r moved by the felt: same segment, the field sum as offset
MovedBy(r, felt) == NewRelocatable(r.SegmentIndex, (r.Offset + felt) % FeltPrime)

\* the field sum of the offset of r and the felt fits an unsigned integer
Fits(r, felt) == (r.Offset + felt) % FeltPrime < LimbModulus

\* what UpdatePc does for Regular, Jump and JumpRel, and for Jnz with dst zero:
\* Regular and Jnz with dst the Felt zero give pc + instruction size; Jump gives
\* res when res is a defined Address; JumpRel gives pc + res when res is a defined
\* Felt; when the condition on res fails, or pc + res does not fit, an error is
\* returned and pc is unchanged; ap and fp are never changed.
UpdatePcWithoutJnzJump ==
    LET pc  == ret.before.Pc
        res == operands.Res
        pu  == instruction.PcUpdate
    IN  /\ run_context.Ap = ret.before.Ap
        /\ run_context.Fp = ret.before.Fp
        /\ ret.err # "nil" => run_context.Pc = pc
        /\ pu = "PcUpdateRegular" \/ (pu = "PcUpdateJnz" /\ IsFelt(operands.Dst)
                                         /\ operands.Dst.felt = 0) =>
              /\ ret.err = "nil"
              /\ run_context.Pc = NewRelocatable(pc.SegmentIndex,
                                                 pc.Offset + Size(instruction))
        /\ pu = "PcUpdateJump" =>
              IF IsAddress(res)
              THEN ret.err = "nil" /\ run_context.Pc = res.rel
              ELSE ret.err # "nil"
        /\ pu = "PcUpdateJumpRel" =>
              IF IsFelt(res) /\ Fits(pc, res.felt)
              THEN ret.err = "nil" /\ run_context.Pc = MovedBy(pc, res.felt)
              ELSE ret.err # "nil"

\* UpdatePc has been called for Jnz with a dst that is not the Felt zero
JnzJumps ==
    /\ ret.op = "UpdatePc"
    /\ instruction.PcUpdate = "PcUpdateJnz"
    /\ ~(IsFelt(operands.Dst) /\ operands.Dst.felt = 0)

\* C14 as claimed: UpdatePc gives pc + instruction size for Regular, res for Jump
\* with res a defined Address, pc + res for JumpRel with res a defined Felt,
\* pc + instruction size for Jnz with dst the Felt zero, and for Jnz otherwise
\* pc + op1, succeeding whether op1 is a Felt or an Address; when the condition on
\* res fails it returns an error and leaves pc unchanged.
C14_UpdatePcJnzAnyOp1 ==
    ret.op = "UpdatePc" =>
        /\ UpdatePcWithoutJnzJump
        /\ JnzJumps =>
              /\ IsAddress(operands.Op1) => ret.err = "nil"
              /\ IsFelt(operands.Op1) /\ Fits(ret.before.Pc, operands.Op1.felt) =>
                    /\ ret.err = "nil"
                    /\ run_context.Pc = MovedBy(ret.before.Pc, operands.Op1.felt)

\* C14: UpdatePc gives pc + instruction size for Regular, res for Jump with res a
\* defined Address, pc + res for JumpRel with res a defined Felt, pc + instruction
\* size for Jnz with dst the Felt zero, and for Jnz otherwise pc + op1 when op1 is
\* a Felt; when op1 is an Address, when the condition on res fails, or when the new
\* offset does not fit an unsigned integer, it returns an error and leaves pc
\* unchanged; it never changes ap or fp.
C14_UpdatePc ==
    ret.op = "UpdatePc" =>
        /\ UpdatePcWithoutJnzJump
        /\ JnzJumps =>
              IF IsFelt(operands.Op1) /\ Fits(ret.before.Pc, operands.Op1.felt)
              THEN /\ ret.err = "nil"
                   /\ run_context.Pc = MovedBy(ret.before.Pc, operands.Op1.felt)
              ELSE /\ ret.err # "nil"
                   /\ run_context.Pc = ret.before.Pc

\* UpdatePc has refused a Jnz whose dst is not zero and whose op1 is an Address,
\* with pc past the start of its segment, and has left pc where it was
C14_Witness ==
    /\ JnzJumps
    /\ IsAddress(operands.Op1)
    /\ ret.err = "Can't add two relocatable values"
    /\ ret.before.Pc.Offset > 0
    /\ run_context.Pc = ret.before.Pc

\* C15: UpdateFp leaves fp unchanged for Regular; sets fp to the address ap + 2
\* (ap's segment index, ap's offset plus 2) for APPlus2; and for Dst sets fp to dst
\* when dst is an Address and to fp + dst when dst is a Felt.
C15_UpdateFp ==
    ret.op = "UpdateFp" =>
        LET fp  == ret.before.Fp
            ap  == ret.before.Ap
            dst == operands.Dst
            fu  == instruction.FpUpdate
        IN  /\ fu = "FpUpdateRegular" => ret.err = "nil" /\ run_context.Fp = fp
            /\ fu = "FpUpdateAPPlus2" =>
                  /\ ret.err = "nil"
                  /\ run_context.Fp = NewRelocatable(ap.SegmentIndex, ap.Offset + 2)
            /\ fu = "FpUpdateDst" /\ IsAddress(dst) =>
                  ret.err = "nil" /\ run_context.Fp = dst.rel
            /\ fu = "FpUpdateDst" /\ IsFelt(dst) /\ Fits(fp, dst.felt) =>
                  ret.err = "nil" /\ run_context.Fp = MovedBy(fp, dst.felt)

\* UpdateFp has run APPlus2 with fp in another segment than ap, and fp is still in
\* its old segment
C15_Witness ==
    /\ ret.op = "UpdateFp"
    /\ instruction.FpUpdate = "FpUpdateAPPlus2"
    /\ ret.before.Ap = NewRelocatable(1, 1)
    /\ ret.before.Fp = NewRelocatable(0, 1)
    /\ run_context.Fp = NewRelocatable(0, 3)

-----------------------------------------------------------------------------
(* Properties of the builtins *)

\* C18: the range check rule applied to an address returns exactly the list
\* <<address>> when the cell holds a Felt of at most N_PARTS * INNER_RC_BOUND_SHIFT
\* bits, fails with the out-of-bounds error when the Felt has more bits, fails with
\* the not-a-felt error when the cell holds an Address, and fails with the error of
\* the read when the cell is unknown; memory is as it was, so a reported address
\* holds a Felt within the bound.
C18_RangeCheckValidationRule ==
    ret.op = "RangeCheckValidationRule" =>
        /\ mem = ret.mem
        /\ IF ret.address \notin DOMAIN mem
           THEN ret.err = "UnknownMemoryCell" /\ ret.val = Nil
           ELSE LET value == mem[ret.address] IN
                /\ IsAddress(value) => ret.err = NotAFeltError /\ ret.val = Nil
                /\ IsFelt(value) /\ value.felt < 2 ^ (N_PARTS * INNER_RC_BOUND_SHIFT) =>
                      ret.err = "nil" /\ ret.val = <<ret.address>>
                /\ IsFelt(value) /\ value.felt >= 2 ^ (N_PARTS * INNER_RC_BOUND_SHIFT) =>
                      ret.err = OutsideBoundsError /\ ret.val = Nil
        /\ ret.err = "nil" =>
              /\ ret.address \in DOMAIN mem
              /\ IsFelt(mem[ret.address])
              /\ Bits(mem[ret.address].felt) <= N_PARTS * INNER_RC_BOUND_SHIFT

\* the rule has validated the address of a cell that holds the largest Felt
\* within the bound
C18_Witness ==
    /\ ret.op = "RangeCheckValidationRule"
    /\ ret.address = NewRelocatable(BuiltinSegment, 1)
    /\ ret.address \in DOMAIN mem
    /\ mem[ret.address] = NewMaybeRelocatableInt(2 ^ (N_PARTS * INNER_RC_BOUND_SHIFT) - 1)
    /\ ret.val = <<ret.address>>
    /\ ret.err = "nil"

\* the cell at the offset of the segment DeduceMemoryCell was called for, Nil
\* when unknown
PedersenCell(offset) ==
    IF NewRelocatable(ret.address.SegmentIndex, offset) \in DOMAIN mem
    THEN mem[NewRelocatable(ret.address.SegmentIndex, offset)]
    ELSE Nil

\* C19: when DeduceMemoryCell returns a value for an address, the offset is 3k+2
\* and the value is pedersen_hash(mem[3k], mem[3k+1]); for an offset that is not 2
\* mod 3, and when either input cell is unknown or not a Felt, it returns no value
\* and no error.
C19_PedersenDeduction ==
    ret.op = "DeduceMemoryCell" =>
        LET offset == ret.address.Offset
            x      == PedersenCell(offset - 2)
            y      == PedersenCell(offset - 1)
            output == offset % PEDERSEN_CELLS_PER_INSTANCE = 2
        IN  /\ ret.val # Nil =>
                  /\ output
                  /\ IsFelt(x) /\ IsFelt(y)
                  /\ ret.val = NewMaybeRelocatableInt(PedersenHash(x.felt, y.felt))
            /\ ~output \/ ~IsFelt(x) \/ ~IsFelt(y) =>
                  ret.val = Nil /\ ret.err = "nil"

\* DeduceMemoryCell has been asked for the output cell of the first instance with
\* an input cell unknown, and has panicked
C19_Witness ==
    /\ ret.op = "DeduceMemoryCell"
    /\ ret.address = NewRelocatable(BuiltinSegment, 2)
    /\ PedersenCell(0) = Nil
    /\ IsFelt(PedersenCell(1))
    /\ ret.err = IndexOutOfRange

\* C20: DeduceMemoryCell never indexes verified_addresses at or past its length,
\* whatever the offset and whatever deductions came before, the first call on a
\* new runner included.
C20_IndexWithinLength ==
    ret.op = "DeduceMemoryCell" => ret.err # IndexOutOfRange

\* the first call on a new runner, for the output cell of an instance whose inputs
\* are both Felts, has indexed the empty verified_addresses at offset 2
C20_Witness ==
    /\ ret.op = "DeduceMemoryCell"
    /\ ret.address = NewRelocatable(BuiltinSegment, 2)
    /\ IsFelt(PedersenCell(0))
    /\ IsFelt(PedersenCell(1))
    /\ ret.length = 0
    /\ ret.address.Offset >= ret.length
    /\ ret.err = IndexOutOfRange

\* The case of C21, a call of DeduceMemoryCell that has deduced a cell, is the
\* state NOT DeduceMemoryCellNeverDeduces. On a runner as NewPedersenBuiltinRunner
\* makes it no state has it: verified_addresses is nil, every call for an output
\* cell stops at the index before the length check (C20), and the only code that
\* grows verified_addresses lies behind that index. What the code does to the
\* cache after a deduction is therefore observed in no run.
DeduceMemoryCellNeverDeduces ==
    /\ verified_addresses = << >>
    /\ ret.op = "DeduceMemoryCell" => ret.val = Nil

-----------------------------------------------------------------------------
(* Properties of the keccak hint *)

\* unsafeKeccak was called with ids.length a Felt that fits a uint64 and ids.data
\* an Address
KeccakCalled ==
    /\ ret.op = "unsafeKeccak"
    /\ IsFelt(ret.ids.length)
    /\ ret.ids.length.felt < LimbModulus
    /\ IsAddress(ret.ids.data)

\* every text the size check can fail with
KeccakSizeErrors ==
    {KeccakSizeExceeded(m, n) : m \in 0 .. LimbModulus, n \in 0 .. LimbModulus}

\* C22: with __keccak_max_size = m (a uint64) in the scopes and ids.length = n > m,
\* unsafeKeccak fails with 'unsafe_keccak() can only be used with length<=m. Got:
\* length=n' and memory, the cells of ids.high and ids.low included, is as it was;
\* when n <= m, or when the scopes hold no such uint64, the size check does not
\* fail.
C22_KeccakMaxSize ==
    KeccakCalled =>
        LET n   == ret.ids.length.felt
            max == scopes["__keccak_max_size"]
        IN  IF max # Nil /\ max.type = "uint64" /\ n > max.val
            THEN /\ ret.err = KeccakSizeExceeded(max.val, n)
                 /\ mem = ret.mem
            ELSE ret.err \notin KeccakSizeErrors

\* unsafeKeccak has refused the length 2 under the maximum size 1, with both
\* words of the input at hand
C22_Witness ==
    /\ KeccakCalled
    /\ scopes["__keccak_max_size"] = [type |-> "uint64", val |-> 1]
    /\ ret.ids.length = NewMaybeRelocatableInt(2)
    /\ ret.ids.data = NewMaybeRelocatableRelocatable(NewRelocatable(1, 0))
    /\ NewRelocatable(1, 0) \in DOMAIN mem
    /\ IsFelt(mem[NewRelocatable(1, 0)])
    /\ ret.err = "unsafe_keccak() can only be used with length<=1. Got: length=2"
    /\ NewRelocatable(1, 2) \notin DOMAIN mem
    /\ NewRelocatable(1, 3) \notin DOMAIN mem

\* the cell of word i of the input before the call, Nil when unknown
KeccakWord(i) ==
    LET addr == NewRelocatable(ret.ids.data.rel.SegmentIndex,
                               ret.ids.data.rel.Offset + i)
    IN  IF addr \in DOMAIN ret.mem THEN ret.mem[addr] ELSE Nil

\* the bytes taken from word i of an input of n bytes
KeccakCount(i, n) == IF n - WordBytes * i > WordBytes THEN WordBytes ELSE n - WordBytes * i

\* the input of n bytes spelled by the words from word i on
RECURSIVE KeccakBytes(_, _)
KeccakBytes(i, n) ==
    IF WordBytes * i >= n THEN << >>
    ELSE LowBytes(KeccakWord(i).felt, KeccakCount(i, n)) \o KeccakBytes(i + 1, n)

\* C23: unsafeKeccak, past the size check, reads the ceil(length / WordBytes)
\* words at ids.data, ids.data + 1, ...; it fails, writing nothing, when one of
\* them is unknown or not a Felt, and with 'Invalid word size' when all are Felts
\* and one has more bits than its byte count holds; otherwise the bytes it hashes
\* are the low bytes of the words, most significant first, length bytes in all,
\* and on success ids.high holds the first half of the digest and ids.low the
\* second, each a Felt below ByteModulus ^ WordBytes.
C23_KeccakInput ==
    KeccakCalled /\ ret.err \notin KeccakSizeErrors =>
        LET n       == ret.ids.length.felt
            words   == (n + WordBytes - 1) \div WordBytes
            missing == \E i \in 0 .. words - 1 : ~IsFelt(KeccakWord(i))
            wide    == \E i \in 0 .. words - 1 :
                          /\ IsFelt(KeccakWord(i))
                          /\ KeccakWord(i).felt >= 2 ^ (ByteBits * KeccakCount(i, n))
            digest  == Keccak256(KeccakBytes(0, n))
            high    == FromBeBytes(SubSeq(digest, 1, WordBytes))
            low     == FromBeBytes(SubSeq(digest, WordBytes + 1, DigestBytes))
        IN  /\ missing \/ wide => ret.err # "nil" /\ mem = ret.mem
            /\ wide /\ ~missing => ret.err = "Invalid word size"
            /\ ~missing /\ ~wide =>
                  /\ ret.input = KeccakBytes(0, n)
                  /\ Len(ret.input) = n
                  /\ ret.err = "nil" =>
                        /\ mem[ret.ids.high] = NewMaybeRelocatableInt(high)
                        /\ mem[ret.ids.low] = NewMaybeRelocatableInt(low)
                        /\ high < ByteModulus ^ WordBytes
                        /\ low < ByteModulus ^ WordBytes

\* unsafeKeccak was asked for a length that int(length) turns negative, with the
\* first two words at hand: it has read no word, hashed the empty input and
\* written the digest
C23_Witness ==
    /\ KeccakCalled
    /\ ret.ids.length = NewMaybeRelocatableInt(LimbModulus \div 2)
    /\ IsFelt(KeccakWord(0))
    /\ IsFelt(KeccakWord(1))
    /\ ret.input = << >>
    /\ ret.err = "nil"
    /\ ret.ids.high \in DOMAIN mem
    /\ ret.ids.low \in DOMAIN mem

-----------------------------------------------------------------------------
(* Properties of the relocation of the trace *)

\* The linear address of a register under a table that has an entry for its
\* segment: the entry plus the offset, as an unsigned integer of the machine.
LinearAddress(r, table) == (table[r.SegmentIndex + 1] + r.Offset) % LimbModulus

LinearEntry(entry, table) ==
    [Pc |-> LinearAddress(entry.Pc, table), Ap |-> LinearAddress(entry.Ap, table),
     Fp |-> LinearAddress(entry.Fp, table)]

\* Every register of the trace is in a segment the table has an entry for.
TableCovers(tr, table) ==
    \A i \in 1..Len(tr) :
        \A r \in {tr[i].Pc, tr[i].Ap, tr[i].Fp} :
            r.SegmentIndex >= 0 /\ r.SegmentIndex < Len(table)

\* C24: RelocateTrace never changes the trace.  With a table of fewer than two
\* entries it fails with "No relocation found for execution segment" and the
\* relocated trace stays as it was.  With a table of at least two entries that
\* covers the segments of the trace it succeeds and has added, for every trace
\* entry in trace order, the entry of the three linear addresses
\* table[segment] + offset, each an unsigned integer of the machine.
C24_RelocateTrace ==
    [][ret'.op = "RelocateTrace" =>
          /\ trace' = trace
          /\ Len(ret'.table) < 2 =>
                /\ ret'.err = "No relocation found for execution segment"
                /\ relocated_trace' = relocated_trace
          /\ (Len(ret'.table) >= 2 /\ TableCovers(trace, ret'.table)) =>
                /\ ret'.err = "nil"
                /\ relocated_trace' =
                      relocated_trace \o
                      [i \in 1..Len(trace) |-> LinearEntry(trace[i], ret'.table)]]_vars

\* RelocateTrace has relocated a trace of two entries in three segments under the
\* table <<1, 2, 4>>.
C24_Witness ==
    /\ ret.op = "RelocateTrace"
    /\ ret.table = <<1, 2, 4>>
    /\ ret.before = << >>
    /\ trace = <<[Pc |-> NewRelocatable(0, 0), Ap |-> NewRelocatable(1, 1),
                  Fp |-> NewRelocatable(1, 0)],
                 [Pc |-> NewRelocatable(0, 1), Ap |-> NewRelocatable(2, 1),
                  Fp |-> NewRelocatable(2, 0)]>>
    /\ relocated_trace = <<[Pc |-> 1, Ap |-> 3, Fp |-> 2],
                           [Pc |-> 2, Ap |-> 5, Fp |-> 4]>>

\* C28: after a successful Relocate of a machine with a non-empty trace, the
\* relocated trace holds exactly one entry for each trace entry, in trace order,
\* however many times Relocate has been called (stated for machines of two or
\* more segments, whose table RelocateTrace accepts).
C28_RelocatedOnce ==
    (/\ ret.op = "Relocate"
     /\ ret.err = "nil"
     /\ trace # << >>
     /\ Len(ret.table) >= 2)
        => relocated_trace = [i \in 1..Len(trace) |-> LinearEntry(trace[i], ret.table)]

\* Relocate has succeeded a second time on a machine with a non-empty trace, and
\* the relocated trace is twice as long as the trace.
C28_Witness ==
    /\ ret.op = "Relocate"
    /\ ret.err = "nil"
    /\ trace # << >>
    /\ ret.before = [i \in 1..Len(trace) |-> LinearEntry(trace[i], ret.table)]
    /\ relocated_trace = ret.before \o ret.before

\* C29: on a machine with a non-empty trace, Relocate returns an error when the
\* relocation table has fewer than two entries, and a GetRelocatedTrace that
\* follows a Relocate that returned no error succeeds and returns the relocated
\* trace.
C29_RelocateReportsFailure ==
    [][/\ (ret'.op = "Relocate" /\ trace # << >> /\ Len(ret'.table) < 2)
              => ret'.err # "nil"
       /\ (ret.op = "Relocate" /\ ret.err = "nil" /\ trace # << >>
           /\ ret'.op = "GetRelocatedTrace")
              => (ret'.err = "nil" /\ ret'.val = relocated_trace)]_vars

\* Relocate has returned no error on a machine with a non-empty trace and a table
\* of one entry; nothing is relocated and GetRelocatedTrace fails.
C29_Witness ==
    /\ ret.op = "Relocate"
    /\ ret.err = "nil"
    /\ trace # << >>
    /\ Len(ret.table) < 2
    /\ relocated_trace = << >>
    /\ GetRelocatedTrace(relocated_trace).err = "Trace not relocated"

-----------------------------------------------------------------------------
(* Properties of the errors the hints and the operands report *)

\* the cell a DICT_READ or DICT_WRITE writes its output identifier to
OutputCell(r) ==
    IF r.hintData.Code = "DICT_READ" THEN r.hintData.Ids.value
    ELSE r.hintData.Ids.prev_value

\* C25: a DICT_READ or DICT_WRITE that got its tracker, and whose write of the
\* value stored for the key to ids.value or ids.prev_value fails on the memory it
\* was called with, returns an error.
C25_OutputWriteFailureReported ==
    [][\A code \in {"DICT_READ", "DICT_WRITE"} :
          (/\ IsHintCall(ret', code)
           /\ AccessGotTracker'
           /\ MemoryInsert(mem, num_segments, OutputCell(ret'),
                  StoredValue(ret'.before.trackers[
                                  ret'.hintData.Ids.dict_ptr.SegmentIndex],
                              ret'.hintData.Ids.key)).err # "nil")
              => ret'.err # "nil"]_vars

\* a DICT_WRITE returned no error and ids.prev_value is not the value the
\* dictionary held for its key
C25_Witness ==
    /\ IsHintCall(ret, "DICT_WRITE")
    /\ AccessGotTracker
    /\ ret.err = "nil"
    /\ CellAt(mem, ret.hintData.Ids.prev_value)
          # StoredValue(ret.before.trackers[ret.hintData.Ids.dict_ptr.SegmentIndex],
                        ret.hintData.Ids.key)

\* whether the cell ComputeOperands reads an operand from is unknown in memory:
\* dst, op0, or, when op0 is known and the address of op1 can be computed, op1
OperandCellUnknown ==
    LET dst_addr == ComputeDstAddr(run_context, instruction)
        op0_addr == ComputeOp0Addr(run_context, instruction)
        op0      == CellAt(mem, op0_addr.val)
        op1_addr == ComputeOp1Addr(run_context, instruction, op0)
    IN  \/ dst_addr.err = "nil" /\ CellAt(mem, dst_addr.val) = Nil
        \/ op0_addr.err = "nil" /\ op0 = Nil
        \/ /\ op0_addr.err = "nil" /\ op0 # Nil
           /\ op1_addr.err = "nil" /\ CellAt(mem, op1_addr.val) = Nil

\* C26: ComputeOperands returns an error when the cell of dst, op0 or op1 is
\* unknown in memory (nothing is deduced), never a nil error.
C26_UnknownCellReported ==
    (ret.op = "ComputeOperands" /\ OperandCellUnknown) => ret.err # "nil"

\* ComputeOperands returned no error and empty operands with dst and op0 known
\* and the cell of op1 unknown
C26_Witness ==
    /\ ret.op = "ComputeOperands"
    /\ ret.err = "nil"
    /\ operands = EmptyOperands
    /\ CellAt(mem, ComputeDstAddr(run_context, instruction).val) # Nil
    /\ CellAt(mem, ComputeOp0Addr(run_context, instruction).val) # Nil
    /\ LET op1_addr == ComputeOp1Addr(run_context, instruction,
                           CellAt(mem, ComputeOp0Addr(run_context, instruction).val))
       IN  op1_addr.err = "nil" /\ CellAt(mem, op1_addr.val) = Nil

-----------------------------------------------------------------------------
(* Properties of the update of all three registers *)

\* C27 as claimed: when UpdateRegisters returns an error, pc, ap and fp all hold
\* the values they had before the call.
C27_AllOrNothing ==
    (ret.op = "UpdateRegisters" /\ ret.err # "nil") => run_context = ret.before

\* C27: UpdateRegisters updates fp, then ap, then pc, and stops at the first
\* error.  When it returns an error, the register whose update failed and the
\* registers after it in that order hold the values they had before the call, and
\* the registers before it hold the values their updates gave them.
C27_UpdatedUpToTheFailure ==
    (ret.op = "UpdateRegisters" /\ ret.err # "nil") =>
        LET fp == UpdateFp(instruction, operands, ret.before)
            ap == UpdateAp(instruction, operands, fp.run_context)
        IN  /\ run_context.Pc = ret.before.Pc
            /\ IF fp.err # "nil"
               THEN run_context = ret.before
               ELSE IF ap.err # "nil"
               THEN /\ run_context.Ap = ret.before.Ap
                    /\ run_context.Fp = fp.run_context.Fp
               ELSE /\ run_context.Ap = ap.run_context.Ap
                    /\ run_context.Fp = fp.run_context.Fp

\* UpdateRegisters has returned the error of the ap update with fp already moved
C27_Witness ==
    /\ ret.op = "UpdateRegisters"
    /\ ret.err = "Res.UNCONSTRAINED cannot be used with ApUpdate.ADD"
    /\ instruction.FpUpdate = "FpUpdateAPPlus2"
    /\ run_context.Fp # ret.before.Fp
    /\ run_context.Ap = ret.before.Ap
    /\ run_context.Pc = ret.before.Pc

====
